---- MODULE Spec2Model ----
(***************************************************************************)
(* ApplicationSet controller: the reconcile loop, the progressive-sync     *)
(* (RollingSync) state machine, the condition model and the deletion       *)
(* orchestrator of applicationset/controllers/applicationset_controller.go *)
(*                                                                         *)
(* The object store holds one parent (appset) and its children (apps).     *)
(* One Reconcile action models one whole call of Reconcile; the other      *)
(* actions are the environment: the generators' output, the application    *)
(* controller that owns the children's runtime status, the owner of the    *)
(* parent's spec and the store's garbage collection.                       *)
(***************************************************************************)
EXTENDS Integers, Sequences, FiniteSets, TLC

VARIABLES
    appset,   \* the parent as stored: spec, metadata, status
    apps,     \* the children as stored, by name
    gen,      \* what the generators and the validation collaborators answer
    cfg,      \* the reconciler's own settings, the children whose writes the store
              \* rejects, and the writes that meet conflicts with another writer
    last      \* what the last Reconcile call, or the last watch event, returned and did

vars == <<appset, apps, gen, cfg, last>>

\* Number of child names of the model.
NumApps == 3

AppNames == 1..NumApps

\* The single label key the steps select on; NoLabel is its absence.
NoLabel == "none"

\* ReconcileRequeueOnValidationError, in seconds.
ReconcileRequeueOnValidationError == 180

\* requeueTime of performReverseDeletion, in seconds.
ReverseRequeueTime == 10

NoStep == -1

\* Steps of retry.DefaultRetry: the attempts RetryOnConflict makes at most.
RetrySteps == 5

(***************************************************************************)
(* Conflicts.  Another writer may change an object between the read and    *)
(* the write of an update; the store then answers the write with a         *)
(* conflict.  cfg.conflict says which kind of write meets conflicts and    *)
(* how many times in a row before the store accepts the write.             *)
(***************************************************************************)
NoConflict == [on |-> "none", times |-> 0]

Conflicts(kind) == IF cfg.conflict.on = kind THEN cfg.conflict.times ELSE 0

\* retry.RetryOnConflict(retry.DefaultRetry, fn): fn reads the object again and
\* writes it, RetrySteps times at most; the last conflict is returned.
RetryOnConflictFails(kind) == Conflicts(kind) >= RetrySteps

\* r.Update outside of any retry: the first conflict is returned.
UpdateFails(kind) == Conflicts(kind) >= 1

\* The reconcile c after a write of the kind was given up at a conflict, with
\* the number of attempts made.
Rejected(c, kind, attempts) == [c EXCEPT !.rejected = @ \cup {<<kind, attempts>>}]

ConflictError == "the object has been modified; please apply your changes to the latest version"

(***************************************************************************)
(* Sequence helpers.                                                       *)
(***************************************************************************)
Range(s) == {s[i] : i \in 1..Len(s)}

RECURSIVE SetToSortedSeq(_)
SetToSortedSeq(S) ==
    IF S = {} THEN <<>>
    ELSE LET m == CHOOSE x \in S : \A y \in S : x <= y
         IN <<m>> \o SetToSortedSeq(S \ {m})

(***************************************************************************)
(* Strategy predicates.                                                    *)
(***************************************************************************)
isRollingSyncStrategy(p) ==
    p.strategy.type = "RollingSync"

progressiveSyncsRollingSyncStrategyEnabled(p) ==
    isRollingSyncStrategy(p) /\ Len(p.strategy.steps) > 0

isProgressiveSyncDeletionOrderReversed(p) ==
    progressiveSyncsRollingSyncStrategyEnabled(p) /\ p.strategy.deletionOrder = "Reverse"

(***************************************************************************)
(* Step selection.                                                         *)
(***************************************************************************)
labelMatchedExpression(val, me) ==
    IF me.operator # "In" /\ me.operator # "NotIn" THEN FALSE
    ELSE IF val \in me.values THEN me.operator = "In"
    ELSE me.operator = "NotIn"

\* The body of the loop over step.MatchExpressions: selected stays true unless
\* an expression rejects the label.
StepSelects(step, label) ==
    \A k \in 1..Len(step.matchExpressions) :
        LET me == step.matchExpressions[k]
        IN IF label # NoLabel THEN labelMatchedExpression(label, me)
           ELSE me.operator # "In"

\* steps as buildAppDependencyList reads them.
StepsOf(p) ==
    IF p.strategy.type \in {"", "AllAtOnce"} THEN <<>>
    ELSE IF progressiveSyncsRollingSyncStrategyEnabled(p) THEN p.strategy.steps
    ELSE <<>>

RECURSIVE SelectNames(_, _)
SelectNames(step, applications) ==
    IF applications = <<>> THEN <<>>
    ELSE (IF StepSelects(step, Head(applications).label)
          THEN <<Head(applications).name>> ELSE <<>>)
         \o SelectNames(step, Tail(applications))

\* appDependencyList: per step, the names it selects, in the order of applications.
AppDependencyList(p, applications) ==
    [i \in 1..Len(StepsOf(p)) |-> SelectNames(StepsOf(p)[i], applications)]

\* appStepMap: applications are visited in order and each one's steps in order;
\* the first step (0-based) found for a name is kept.
AppStepMap(p, applications) ==
    LET steps == StepsOf(p)
        Sel(k) == {i \in 1..Len(steps) : StepSelects(steps[i], applications[k].label)}
        Occ(n) == {k \in 1..Len(applications) : applications[k].name = n /\ Sel(k) # {}}
        matched == {n \in AppNames : Occ(n) # {}}
        FirstOcc(n) == CHOOSE k \in Occ(n) : \A j \in Occ(n) : k <= j
        FirstSel(k) == CHOOSE i \in Sel(k) : \A j \in Sel(k) : i <= j
    IN [n \in matched |-> FirstSel(FirstOcc(n)) - 1]

\* appStepMap[name] as Go reads a map: the zero value for a missing key.
StepIndex(appStepMap, name) ==
    IF name \in DOMAIN appStepMap THEN appStepMap[name] ELSE 0

getAppStep(appName, appStepMap) ==
    IF appName \in DOMAIN appStepMap THEN appStepMap[appName] + 1 ELSE NoStep

(***************************************************************************)
(* Runtime health of a child.                                              *)
(***************************************************************************)
\* Variant: the sync status is not looked at.
isApplicationHealthyAnySync(app) ==
    /\ app.health = "Healthy"
    /\ app.phase \in {"Succeeded", ""}

isApplicationHealthy(app) ==
    /\ app.health = "Healthy"
    /\ app.sync # "OutOfSync"
    /\ app.phase \in {"Succeeded", ""}

appSyncEnabledForNextStep(p, app, appStatus) ==
    IF progressiveSyncsRollingSyncStrategyEnabled(p)
    THEN isApplicationHealthy(app) /\ appStatus.status = "Healthy"
    ELSE TRUE

(***************************************************************************)
(* buildAppSyncMap.  syncEnabled is carried from step to step; the inner   *)
(* loop overwrites it with each app's answer and stops at the first false. *)
(***************************************************************************)
StepAllowsNext(p, names, appMap) ==
    \A k \in 1..Len(names) :
        /\ names[k] \in DOMAIN p.status.applicationStatus
        /\ names[k] \in DOMAIN appMap
        /\ appSyncEnabledForNextStep(p, appMap[names[k]], p.status.applicationStatus[names[k]])

\* syncEnabled as it stands when step i (1-based) is entered.
RECURSIVE SyncEnabledAt(_, _, _, _)
SyncEnabledAt(p, appDependencyList, appMap, i) ==
    IF i = 1 THEN TRUE
    ELSE IF appDependencyList[i - 1] = <<>>
         THEN SyncEnabledAt(p, appDependencyList, appMap, i - 1)
         ELSE StepAllowsNext(p, appDependencyList[i - 1], appMap)

\* appSyncMap[appName] = syncEnabled is assigned step after step, so the last
\* step that lists a name decides its entry.
buildAppSyncMap(p, appDependencyList, appMap) ==
    LET listed == {n \in AppNames : \E i \in 1..Len(appDependencyList) : n \in Range(appDependencyList[i])}
        LastStep(n) == CHOOSE i \in 1..Len(appDependencyList) :
                          /\ n \in Range(appDependencyList[i])
                          /\ \A j \in (i + 1)..Len(appDependencyList) : n \notin Range(appDependencyList[j])
    IN [n \in listed |-> SyncEnabledAt(p, appDependencyList, appMap, LastStep(n))]

\* Variant: a child the map does not hold is allowed to sync.
SyncAllowedUnlessHeld(appSyncMap, name) ==
    name \in DOMAIN appSyncMap => appSyncMap[name]

\* appSyncMap[name] as Go reads a map of bool: false for a missing key.
SyncAllowed(appSyncMap, name) ==
    name \in DOMAIN appSyncMap /\ appSyncMap[name]

(***************************************************************************)
(* The store's view of the children.                                       *)
(***************************************************************************)
NoApp ==
    [name |-> 0, exists |-> FALSE, owned |-> FALSE, deleting |-> "no",
     finalizer |-> FALSE, label |-> NoLabel, spec |-> 0, op |-> FALSE,
     health |-> "", sync |-> "", phase |-> "", rev |-> "r0"]

Gone(n) == [NoApp EXCEPT !.name = n]

\* getCurrentApplications: the children whose controller owner is the parent,
\* as the store lists them (by name).
getCurrentApplications(A) ==
    LET names == SetToSortedSeq({n \in AppNames : A[n].exists /\ A[n].owned})
    IN [k \in 1..Len(names) |-> A[names[k]]]

NamesOf(applications) == {applications[k].name : k \in 1..Len(applications)}

\* appMap of Reconcile: name -> application, from the current applications.
AppMapOf(applications) ==
    [n \in NamesOf(applications) |->
        applications[CHOOSE k \in 1..Len(applications) :
                        /\ applications[k].name = n
                        /\ \A j \in (k + 1)..Len(applications) : applications[j].name # n]]

(***************************************************************************)
(* setAppSetApplicationStatus: the write is skipped when the new list has  *)
(* the same length and every entry agrees in message, status and step with *)
(* the recorded one.  c is the reconcile in progress: its in-memory parent *)
(* is handed in and out separately (mem), c.st is the stored parent.       *)
(***************************************************************************)
NeedToUpdateStatus(mem, statuses) ==
    \/ Cardinality(DOMAIN statuses) # Cardinality(DOMAIN mem.status.applicationStatus)
    \/ \E n \in DOMAIN statuses :
          \/ n \notin DOMAIN mem.status.applicationStatus
          \/ mem.status.applicationStatus[n].message # statuses[n].message
          \/ mem.status.applicationStatus[n].status # statuses[n].status
          \/ mem.status.applicationStatus[n].step # statuses[n].step

setAppSetApplicationStatus(mem, c, statuses) ==
    IF NeedToUpdateStatus(mem, statuses) /\ RetryOnConflictFails("status.applicationStatus")
    THEN [mem |-> [mem EXCEPT !.status.applicationStatus = statuses],
          c |-> Rejected(c, "status.applicationStatus", RetrySteps),
          err |-> "unable to set application set status"]
    ELSE IF NeedToUpdateStatus(mem, statuses)
    THEN LET st2 == [c.st EXCEPT !.status.applicationStatus = statuses]
         IN [mem |-> st2,
             c |-> [c EXCEPT !.st = st2,
                             !.writes = @ \cup {"status.applicationStatus"}],
             err |-> ""]
    ELSE [mem |-> mem, c |-> c, err |-> ""]

(***************************************************************************)
(* updateApplicationSetApplicationStatus: one entry per current            *)
(* application; the rules are a sequence of ifs on the entry being built.  *)
(***************************************************************************)
NoRev == "nil"

\* The entry found for the application, or a new one (lines 1135-1152).
StatusFound(p, app, step) ==
    LET old == p.status.applicationStatus
    IN IF app.name \notin DOMAIN old
       THEN [status |-> "Waiting", step |-> step, rev |-> NoRev,
             message |-> "No Application status found, defaulting status to Waiting."]
       ELSE IF old[app.name].rev # app.rev
            THEN [old[app.name] EXCEPT
                     !.message = "Application has pending changes, setting status to Waiting."]
            ELSE old[app.name]

\* Lines 1154-1160: new target revisions.
StatusRevised(s, app, step) ==
    IF s.rev # app.rev
    THEN [s EXCEPT !.rev = app.rev, !.status = "Waiting", !.step = step]
    ELSE s

appOutdated(p, app) ==
    progressiveSyncsRollingSyncStrategyEnabled(p) /\ app.sync = "OutOfSync"

\* Lines 1167-1173: an outdated application goes back to Waiting.
StatusOutdated(s, p, app, step) ==
    IF appOutdated(p, app) /\ s.status # "Waiting" /\ s.status # "Pending"
    THEN [s EXCEPT !.status = "Waiting", !.step = step,
             !.message = "Application has pending changes, setting status to Waiting."]
    ELSE s

\* Variant: a Waiting entry goes to Progressing as a Pending one does.
StatusPendingOrWaiting(s, p, app, step) ==
    IF s.status \in {"Pending", "Waiting"}
    THEN IF ~appOutdated(p, app) /\ app.phase = "Succeeded"
         THEN [s EXCEPT !.status = "Progressing", !.step = step]
         ELSE IF app.phase = "Running" \/ app.health = "Progressing"
              THEN [s EXCEPT !.status = "Progressing", !.step = step]
              ELSE s
    ELSE s

\* Lines 1175-1189: Pending -> Progressing.
StatusPending(s, p, app, step) ==
    IF s.status = "Pending"
    THEN IF ~appOutdated(p, app) /\ app.phase = "Succeeded"
         THEN [s EXCEPT !.status = "Progressing", !.step = step,
                  !.message = "Application resource completed a sync successfully, updating status from Pending to Progressing."]
         ELSE IF app.phase = "Running" \/ app.health = "Progressing"
              THEN [s EXCEPT !.status = "Progressing", !.step = step,
                       !.message = "Application resource became Progressing, updating status from Pending to Progressing."]
              ELSE s
    ELSE s

\* Lines 1191-1197: Waiting -> Healthy.
StatusWaiting(s, app, step) ==
    IF s.status = "Waiting" /\ isApplicationHealthy(app)
    THEN [s EXCEPT !.status = app.health, !.step = step,
             !.message = "Application resource is already Healthy, updating status from Waiting to Healthy."]
    ELSE s

\* Lines 1199-1205: Progressing -> Healthy.
StatusProgressing(s, app, step) ==
    IF s.status = "Progressing" /\ isApplicationHealthy(app)
    THEN [s EXCEPT !.status = app.health, !.step = step,
             !.message = "Application resource became Healthy, updating status from Progressing to Healthy."]
    ELSE s

StatusPassEntry(p, app, appStepMap) ==
    StatusProgressing(
        StatusWaiting(
            StatusPending(
                StatusOutdated(
                    StatusRevised(StatusFound(p, app, getAppStep(app.name, appStepMap)),
                                  app, getAppStep(app.name, appStepMap)),
                    p, app, getAppStep(app.name, appStepMap)),
                p, app, getAppStep(app.name, appStepMap)),
            app, getAppStep(app.name, appStepMap)),
        app, getAppStep(app.name, appStepMap))

StatusPassList(p, applications, appStepMap) ==
    LET m == AppMapOf(applications)
    IN [n \in DOMAIN m |-> StatusPassEntry(p, m[n], appStepMap)]

updateApplicationSetApplicationStatus(mem, c, applications, appStepMap) ==
    setAppSetApplicationStatus(mem, c, StatusPassList(mem, applications, appStepMap))

(***************************************************************************)
(* updateApplicationSetApplicationStatusProgress: Waiting -> Pending under *)
(* the step's maxUpdate.  A maxUpdate is unset ("nil"), an integer ("int"),*)
(* a percentage ("pct", val percent) or a string that is no percentage     *)
(* ("bad").                                                                *)
(***************************************************************************)
NoMaxUpdate == [type |-> "nil", val |-> 0]

\* intstr.GetScaledValueFromIntOrPercent(maxUpdate, total, false) followed by the
\* at-least-one rule for percentages other than "0%".
ResolveMaxUpdate(maxUpdate, total) ==
    LET scaled == CASE maxUpdate.type = "int" -> maxUpdate.val
                    [] maxUpdate.type = "pct" -> (maxUpdate.val * total) \div 100
                    [] OTHER -> 0
        isString == maxUpdate.type \in {"pct", "bad"}
        isZeroPercent == maxUpdate.type = "pct" /\ maxUpdate.val = 0
    IN IF isString /\ ~isZeroPercent /\ scaled < 1 THEN 1 ELSE scaled

\* totalCountMap and the initial updateCountMap, indexed by the 0-based step.
TotalCount(p, appStepMap, i) ==
    Cardinality({n \in DOMAIN p.status.applicationStatus : StepIndex(appStepMap, n) = i})

\* Variant: the entries already in flight are not counted.
InFlightNotCounted(statuses, appStepMap, i) == 0

InFlight(statuses, appStepMap, i) ==
    Cardinality({n \in DOMAIN statuses :
                    /\ StepIndex(appStepMap, n) = i
                    /\ statuses[n].status \in {"Pending", "Progressing"}})

\* The second loop: names in the order of the status list, acc the entries
\* rebuilt so far (their promotions are what updateCountMap has gained).
RECURSIVE ProgressLoop(_, _, _, _, _)
ProgressLoop(p, appSyncMap, appStepMap, names, acc) ==
    IF names = <<>> THEN acc
    ELSE LET n == Head(names)
             appStatus == p.status.applicationStatus[n]
             i == StepIndex(appStepMap, n)
             maxUpdate == p.strategy.steps[i + 1].maxUpdate
             promotedBefore == Cardinality({m \in DOMAIN acc :
                                   /\ StepIndex(appStepMap, m) = i
                                   /\ acc[m].status = "Pending"
                                   /\ p.status.applicationStatus[m].status = "Waiting"})
             updateCount == InFlight(p.status.applicationStatus, appStepMap, i) + promotedBefore
             maxUpdateAllowed ==
                 IF maxUpdate.type = "nil" THEN TRUE
                 ELSE ~(updateCount >= ResolveMaxUpdate(maxUpdate, TotalCount(p, appStepMap, i)))
             entry == IF appStatus.status = "Waiting" /\ SyncAllowed(appSyncMap, n) /\ maxUpdateAllowed
                      THEN [appStatus EXCEPT
                               !.status = "Pending",
                               !.step = getAppStep(n, appStepMap),
                               !.message = "Application moved to Pending status, watching for the Application resource to start Progressing."]
                      ELSE appStatus
         IN ProgressLoop(p, appSyncMap, appStepMap, Tail(names),
                         [m \in DOMAIN acc \cup {n} |-> IF m = n THEN entry ELSE acc[m]])

EmptyStatuses == [n \in {} |-> 0]

ProgressPassList(p, appSyncMap, appStepMap) ==
    IF progressiveSyncsRollingSyncStrategyEnabled(p)
    THEN ProgressLoop(p, appSyncMap, appStepMap,
                      SetToSortedSeq(DOMAIN p.status.applicationStatus), EmptyStatuses)
    ELSE EmptyStatuses

updateApplicationSetApplicationStatusProgress(mem, c, appSyncMap, appStepMap) ==
    setAppSetApplicationStatus(mem, c, ProgressPassList(mem, appSyncMap, appStepMap))

(***************************************************************************)
(* Conditions.  A condition set holds at most one record per type and is   *)
(* kept ordered by type, so it is a function from the types present.       *)
(***************************************************************************)
CondTypes == {"ErrorOccurred", "ParametersGenerated", "ResourcesUpToDate", "RolloutProgressing"}

NoConditions == [t \in {} |-> 0]

Cond(type, status, reason, message) ==
    [type |-> type, status |-> status, reason |-> reason, message |-> message]

CondBody(cond) == [status |-> cond.status, reason |-> cond.reason, message |-> cond.message]

\* ApplicationSetStatus.SetConditions: recorded conditions of a type that was not
\* evaluated are kept, those of an evaluated type are replaced by the new
\* condition of that type, or dropped when there is none.
SetConditions(conditions, newConditions, evaluatedTypes) ==
    LET kept == {t \in DOMAIN conditions : ~evaluatedTypes[t]}
        set == {t \in CondTypes : evaluatedTypes[t] /\ \E nc \in newConditions : nc.type = t}
    IN [t \in kept \cup set |->
           IF t \in set THEN CondBody(CHOOSE nc \in newConditions : nc.type = t)
           ELSE conditions[t]]

getParametersGeneratedCondition(parametersGenerated, message) ==
    IF parametersGenerated
    THEN Cond("ParametersGenerated", "True", "ParametersGenerated",
              "Successfully generated parameters for all Applications")
    ELSE Cond("ParametersGenerated", "False", "ErrorOccurred", message)

\* Variant: no paired condition is added.
NewConditionsForUnpaired(condition, parametersGenerated) ==
    {condition}
    \cup (IF condition.type # "ParametersGenerated"
          THEN {getParametersGeneratedCondition(parametersGenerated, condition.message)}
          ELSE {})

\* The conditions one call evaluates together with the given one.
NewConditionsFor(condition, parametersGenerated) ==
    {condition}
    \cup (IF condition.type # "ParametersGenerated"
          THEN {getParametersGeneratedCondition(parametersGenerated, condition.message)}
          ELSE {})
    \cup (IF condition.type = "ResourcesUpToDate" /\ condition.status = "True"
          THEN {Cond("ErrorOccurred", "False", condition.reason, condition.message)}
          ELSE {})
    \cup (IF condition.type = "ErrorOccurred" /\ condition.status = "True"
          THEN {Cond("ResourcesUpToDate", "False", "ErrorOccurred", condition.message)}
          ELSE {})

\* Variant: RolloutProgressing is evaluated only by its own writes.
EvaluatedTypesForOwnOnly(p, condition) ==
    [t \in CondTypes |->
        CASE t = "ParametersGenerated" -> TRUE
          [] t = "RolloutProgressing" ->
                condition.type = "RolloutProgressing" /\ isRollingSyncStrategy(p)
          [] t = "ErrorOccurred" ->
                \/ condition.type = "ErrorOccurred"
                \/ condition.type = "ResourcesUpToDate" /\ condition.status = "True"
          [] t = "ResourcesUpToDate" ->
                \/ condition.type = "ResourcesUpToDate"
                \/ condition.type = "ErrorOccurred" /\ condition.status = "True"]

EvaluatedTypesFor(p, condition) ==
    [t \in CondTypes |->
        CASE t = "ParametersGenerated" -> TRUE
          [] t = "RolloutProgressing" ->
                IF condition.type = "RolloutProgressing"
                THEN isRollingSyncStrategy(p)
                ELSE ~isRollingSyncStrategy(p)
          [] t = "ErrorOccurred" ->
                \/ condition.type = "ErrorOccurred"
                \/ condition.type = "ResourcesUpToDate" /\ condition.status = "True"
          [] t = "ResourcesUpToDate" ->
                \/ condition.type = "ResourcesUpToDate"
                \/ condition.type = "ErrorOccurred" /\ condition.status = "True"]

\* The in-memory set is rebuilt first; the store is read and written only when
\* that changed it, and then the stored set is rebuilt the same way.
WriteConditions(mem, c, newConditions, evaluatedTypes) ==
    IF SetConditions(mem.status.conditions, newConditions, evaluatedTypes) = mem.status.conditions
    THEN [mem |-> mem, c |-> c, err |-> ""]
    ELSE IF RetryOnConflictFails("status.conditions")
    THEN [mem |-> [mem EXCEPT !.status.conditions =
                      SetConditions(@, newConditions, evaluatedTypes)],
          c |-> Rejected(c, "status.conditions", RetrySteps),
          err |-> "unable to set application set condition"]
    ELSE LET st2 == [c.st EXCEPT !.status.conditions =
                        SetConditions(@, newConditions, evaluatedTypes)]
         IN [mem |-> st2,
             c |-> [c EXCEPT !.st = st2, !.writes = @ \cup {"status.conditions"}],
             err |-> ""]

setApplicationSetStatusCondition(mem, c, condition, parametersGenerated) ==
    WriteConditions(mem, c, NewConditionsFor(condition, parametersGenerated),
                    EvaluatedTypesFor(mem, condition))

(***************************************************************************)
(* updateApplicationSetApplicationStatusConditions: the progress condition *)
(***************************************************************************)
\* completedWaves[step]: every entry recorded at the step is Healthy.
StepHasEntries(p, step) ==
    \E n \in DOMAIN p.status.applicationStatus : p.status.applicationStatus[n].step = step

StepCompleted(p, step) ==
    \A n \in DOMAIN p.status.applicationStatus :
        p.status.applicationStatus[n].step = step => p.status.applicationStatus[n].status = "Healthy"

ProgressingSteps(p) ==
    {i \in 1..Len(p.strategy.steps) : StepHasEntries(p, i) /\ ~StepCompleted(p, i)}

RolloutCondition(p) ==
    IF ProgressingSteps(p) # {}
    THEN Cond("RolloutProgressing", "True", "ApplicationSetModified",
              "ApplicationSet is performing rollout of step "
              \o ToString(CHOOSE i \in ProgressingSteps(p) : \A j \in ProgressingSteps(p) : i <= j))
    ELSE Cond("RolloutProgressing", "False", "ApplicationSetRolloutComplete",
              "ApplicationSet Rollout has completed")

updateApplicationSetApplicationStatusConditions(mem, c) ==
    IF ~isRollingSyncStrategy(mem)
    THEN [mem |-> mem, c |-> c, err |-> ""]
    ELSE setApplicationSetStatusCondition(mem, c, RolloutCondition(mem), TRUE)

(***************************************************************************)
(* performProgressiveSyncs.  It works on its own copy of the parent, so    *)
(* the caller's in-memory parent keeps the status it had before the call.  *)
(***************************************************************************)
\* r1, r2, r3: what the three status functions returned, in order.
ProgressiveSyncsResult(r1, r2, r3, appSyncMap, appStepMap) ==
    [c |-> r3.c, appSyncMap |-> appSyncMap, appStepMap |-> appStepMap,
     passed |-> r1.mem.status.applicationStatus,
     progressed |-> r2.mem.status.applicationStatus, err |-> ""]

\* Lines 938-940 and 951-953: the status function that returned r failed.
ProgressiveSyncsFailed(r, appStepMap) ==
    [c |-> r.c, appSyncMap |-> EmptyStatuses, appStepMap |-> appStepMap,
     passed |-> r.mem.status.applicationStatus,
     progressed |-> r.mem.status.applicationStatus, err |-> r.err]

ProgressiveSyncsConditions(r1, r2, appSyncMap, appStepMap) ==
    IF r2.err # "" THEN ProgressiveSyncsFailed(r2, appStepMap) ELSE
    ProgressiveSyncsResult(r1, r2, updateApplicationSetApplicationStatusConditions(r2.mem, r2.c),
                           appSyncMap, appStepMap)

ProgressiveSyncsProgress(r1, appSyncMap, appStepMap) ==
    ProgressiveSyncsConditions(
        r1, updateApplicationSetApplicationStatusProgress(r1.mem, r1.c, appSyncMap, appStepMap),
        appSyncMap, appStepMap)

ProgressiveSyncsSyncMap(r1, appDependencyList, appStepMap, appMap) ==
    IF r1.err # "" THEN ProgressiveSyncsFailed(r1, appStepMap) ELSE
    ProgressiveSyncsProgress(r1, buildAppSyncMap(r1.mem, appDependencyList, appMap), appStepMap)

ProgressiveSyncsStatus(mem, c, applications, appDependencyList, appStepMap, appMap) ==
    ProgressiveSyncsSyncMap(
        updateApplicationSetApplicationStatus(mem, c, applications, appStepMap),
        appDependencyList, appStepMap, appMap)

performProgressiveSyncs(mem, c, applications, desiredApplications, appMap) ==
    ProgressiveSyncsStatus(mem, c, applications,
                           AppDependencyList(mem, desiredApplications),
                           AppStepMap(mem, desiredApplications), appMap)

(***************************************************************************)
(* Validation of the generated applications.                               *)
(***************************************************************************)
\* errorsByApp, as name -> kind of the error recorded last for the name: a
\* repeated name overwrites what its first occurrence recorded.
validateGeneratedApplications(desiredApplications, g) ==
    LET Dup(n) == Cardinality({k \in 1..Len(desiredApplications) : desiredApplications[k].name = n}) > 1
        bad == {n \in NamesOf(desiredApplications) : Dup(n) \/ n \in g.noProject \/ n \in g.badDest}
    IN [n \in bad |->
           IF Dup(n) THEN "ApplicationSet contains applications with duplicate name"
           ELSE IF n \in g.noProject THEN "application references project which does not exist"
           ELSE "application destination spec is invalid"]

\* The message of the validation condition: that of the last name in order,
\* with the number of the others.
ValidationMessage(validateErrors) ==
    LET lastName == CHOOSE n \in DOMAIN validateErrors : \A m \in DOMAIN validateErrors : m <= n
        count == Cardinality(DOMAIN validateErrors)
    IN IF count > 1
       THEN validateErrors[lastName] \o " (and " \o ToString(count - 1) \o " more)"
       ELSE validateErrors[lastName]

RECURSIVE FilterValid(_, _)
FilterValid(generatedApplications, validateErrors) ==
    IF generatedApplications = <<>> THEN <<>>
    ELSE (IF Head(generatedApplications).name \in DOMAIN validateErrors
          THEN <<>> ELSE <<Head(generatedApplications)>>)
         \o FilterValid(Tail(generatedApplications), validateErrors)

(***************************************************************************)
(* Store operations on one child.                                          *)
(***************************************************************************)
\* Delete: an object that still has a finalizer is only marked for deletion.
DeleteChild(A, n) ==
    IF ~A[n].exists THEN A
    ELSE IF A[n].finalizer
         THEN [A EXCEPT ![n].deleting = IF @ = "no" THEN "marked" ELSE @]
         ELSE [A EXCEPT ![n] = Gone(n)]

\* Update or Patch: an object marked for deletion goes once its last finalizer does.
PutChild(A, n, obj) ==
    IF obj.deleting # "no" /\ ~obj.finalizer
    THEN [A EXCEPT ![n] = Gone(n)]
    ELSE [A EXCEPT ![n] = obj]

(***************************************************************************)
(* syncValidApplications: the one-shot sync operation.                     *)
(***************************************************************************)
\* Variant: no sync operation is ever set.
syncValidApplicationsNever(mem, appSyncMap, appMap, validApps) == validApps

syncValidApplications(mem, appSyncMap, appMap, validApps) ==
    [k \in 1..Len(validApps) |->
        LET d == validApps[k]
            appSetStatusPending ==
                /\ d.name \in DOMAIN mem.status.applicationStatus
                /\ mem.status.applicationStatus[d.name].status = "Pending"
            outOfSync == d.name \in DOMAIN appMap /\ appMap[d.name].sync = "OutOfSync"
        IN IF SyncAllowed(appSyncMap, d.name) /\ outOfSync /\ appSetStatusPending
           THEN [d EXCEPT !.op = TRUE]
           ELSE d]

(***************************************************************************)
(* createOrUpdateInCluster, createInCluster, deleteInCluster.              *)
(***************************************************************************)
\* What the mutate function of CreateOrUpdate makes of the object found.
Merged(found, generatedApp) ==
    [found EXCEPT !.spec = generatedApp.spec,
                  !.op = IF generatedApp.op THEN TRUE ELSE @,
                  !.label = generatedApp.label,
                  !.finalizer = generatedApp.finalizer,
                  !.owned = TRUE]

Created(generatedApp) ==
    [NoApp EXCEPT !.name = generatedApp.name, !.exists = TRUE, !.owned = TRUE,
                  !.spec = generatedApp.spec, !.op = generatedApp.op,
                  !.label = generatedApp.label, !.finalizer = generatedApp.finalizer]

\* The error of a write the store rejects.
WriteError(n) == "write rejected for application " \o ToString(n)

\* Lines 739-745: the error of a child is kept if it is the first.
RecordFirstError(c, n) ==
    [c EXCEPT !.failed = @ \cup {n},
              !.firstError = IF @ = "" THEN WriteError(n) ELSE @]

CreateOrUpdateOne(c, generatedApp) ==
    LET n == generatedApp.name
        found == c.apps[n]
    IN IF ~found.exists
       THEN IF n \in cfg.failing THEN RecordFirstError(c, n)
            ELSE [c EXCEPT !.apps = [@ EXCEPT ![n] = Created(generatedApp)],
                           !.created = @ \cup {n},
                           !.writes = @ \cup {"child.create"}]
       ELSE IF Merged(found, generatedApp) = found
            THEN c
            ELSE IF n \in cfg.failing THEN RecordFirstError(c, n)
                 ELSE [c EXCEPT !.apps = PutChild(@, n, Merged(found, generatedApp)),
                                !.updated = @ \cup {n},
                                !.writes = @ \cup {"child.update"}]

RECURSIVE createOrUpdateInCluster(_, _)
createOrUpdateInCluster(c, desiredApplications) ==
    IF desiredApplications = <<>> THEN c
    ELSE createOrUpdateInCluster(CreateOrUpdateOne(c, Head(desiredApplications)),
                                 Tail(desiredApplications))

RECURSIVE FilterNew(_, _)
FilterNew(desiredApplications, currentNames) ==
    IF desiredApplications = <<>> THEN <<>>
    ELSE (IF Head(desiredApplications).name \in currentNames
          THEN <<>> ELSE <<Head(desiredApplications)>>)
         \o FilterNew(Tail(desiredApplications), currentNames)

createInCluster(c, desiredApplications) ==
    createOrUpdateInCluster(c, FilterNew(desiredApplications,
                                         NamesOf(getCurrentApplications(c.apps))))

\* removeFinalizerOnInvalidDestination for one current application.
RemoveFinalizerOnInvalidDestination(c, n, g) ==
    IF c.apps[n].finalizer /\ n \in g.badDest
    THEN [c EXCEPT !.apps = PutChild(@, n, [c.apps[n] EXCEPT !.finalizer = FALSE]),
                   !.patched = @ \cup {n},
                   !.writes = @ \cup {"child.patch"}]
    ELSE c

\* Lines 826-832 and 835-841: the error of a child is kept only if an error
\* has been kept before.
RecordDeleteError(c, n) ==
    [c EXCEPT !.failed = @ \cup {n},
              !.firstError = IF @ # "" THEN WriteError(n) ELSE @]

\* Delete of one current application.
DeleteCurrent(c, n) ==
    IF c.apps[n].exists
    THEN IF n \in cfg.failing THEN RecordDeleteError(c, n)
         ELSE [c EXCEPT !.apps = DeleteChild(@, n),
                        !.deleted = @ \cup {n},
                        !.writes = @ \cup {"child.delete"}]
    ELSE c

\* The body of the loop: a failed finalizer patch skips the Delete.
DeleteOne(c, n, g) ==
    IF c.apps[n].finalizer /\ n \in g.badDest /\ n \in cfg.failing
    THEN RecordDeleteError(c, n)
    ELSE DeleteCurrent(RemoveFinalizerOnInvalidDestination(c, n, g), n)

RECURSIVE DeleteLoop(_, _, _)
DeleteLoop(c, names, g) ==
    IF names = <<>> THEN c
    ELSE DeleteLoop(DeleteOne(c, Head(names), g), Tail(names), g)

\* Variant: nothing is deleted.
deleteInClusterSkipped(c, desiredApplications, g) == c

deleteInCluster(c, desiredApplications, g) ==
    LET current == getCurrentApplications(c.apps)
        m == NamesOf(desiredApplications)
    IN DeleteLoop(c, SetToSortedSeq(NamesOf(current) \ m), g)

(***************************************************************************)
(* The reconcile in progress and what it returns.                          *)
(***************************************************************************)
\* What a Reconcile call starts from: the store as it is, nothing written yet.
Begin ==
    [st |-> appset, apps |-> apps, writes |-> {},
     created |-> {}, updated |-> {}, patched |-> {}, deleted |-> {},
     failed |-> {}, firstError |-> "", rejected |-> {}]

\* What a call of performProgressiveSyncs worked with: the allow map, the step
\* map, the status list after the first pass, the names of appMap and those
\* of them that were runtime-healthy.
NoProgress == [ran |-> FALSE, appSyncMap |-> EmptyStatuses, appStepMap |-> EmptyStatuses,
               passed |-> EmptyStatuses, appMapNames |-> {}, healthyNames |-> {}]

Return(c, kind, requeueAfter, err, ps) ==
    [c |-> c, kind |-> kind, requeueAfter |-> requeueAfter, err |-> err, ps |-> ps]

Faults == {"none", "getChild", "deleteChild"}

(***************************************************************************)
(* Teardown of a parent that has a deletion timestamp.                     *)
(***************************************************************************)
removeOwnerReferencesOnDeleteAppSet(c) ==
    LET applications == getCurrentApplications(c.apps)
    IN IF applications = <<>> THEN c
       ELSE [c EXCEPT !.apps = [n \in AppNames |->
                                   IF n \in NamesOf(applications)
                                   THEN [@[n] EXCEPT !.owned = FALSE] ELSE @[n]],
                      !.updated = @ \cup NamesOf(applications),
                      !.writes = @ \cup {"child.update"}]

\* Variant: the names of the lowest step come first.
ReverseFrontLowest(appStepMap) ==
    {n \in DOMAIN appStepMap : \A m \in DOMAIN appStepMap : appStepMap[n] <= appStepMap[m]}

\* Variant: any name may come first.
ReverseFrontAny(appStepMap) == DOMAIN appStepMap

\* Variant: no name is visited.
ReverseFrontNone(appStepMap) == {}

\* reverseDeleteAppSteps after the sort: the names of appStepMap by descending
\* step.  The order among the names of one step is not fixed by the code (map
\* iteration, unstable sort); first says which of them comes first.
ReverseFront(appStepMap) ==
    {n \in DOMAIN appStepMap : \A m \in DOMAIN appStepMap : appStepMap[m] <= appStepMap[n]}

\* What performReverseDeletion returns, with the step map it worked with.
ReverseResult(c, requeueTime, err, appStepMap) ==
    [c |-> c, requeueTime |-> requeueTime, err |-> err, appStepMap |-> appStepMap]

\* The body of the loop for the application n it reads first.
ReverseDeletionAt(c, appStepMap, n, fault) ==
    IF fault = "getChild"
    THEN ReverseResult(c, 0, "resource name may not be empty", appStepMap)
    ELSE IF c.apps[n].deleting = "stale"
         THEN ReverseResult(c, 0, "application has not been deleted in over 2 minutes", appStepMap)
         ELSE IF fault = "deleteChild"
              THEN ReverseResult(c, 0, "delete failed", appStepMap)
              ELSE ReverseResult([c EXCEPT !.apps = DeleteChild(@, n),
                                           !.deleted = @ \cup {n},
                                           !.writes = @ \cup {"child.delete"}],
                                 ReverseRequeueTime, "", appStepMap)

ReverseDeletionOver(c, appStepMap, first, fault) ==
    IF ReverseFront(appStepMap) = {}
    THEN ReverseResult(c, 0, "", appStepMap)
    ELSE ReverseDeletionAt(c, appStepMap,
                           IF first \in ReverseFront(appStepMap) THEN first
                           ELSE CHOOSE m \in ReverseFront(appStepMap) : TRUE,
                           fault)

\* Variant: a successful Delete asks for no requeue.
performReverseDeletionNoRequeue(c, p, currentApps, first, fault) ==
    [ReverseDeletionOver(c, AppStepMap(p, currentApps), first, fault)
        EXCEPT !.requeueTime = 0]

\* The loop returns at the first application it reads: the read fails, or the
\* application is there and Delete is called on it.
performReverseDeletion(c, p, currentApps, first, fault) ==
    ReverseDeletionOver(c, AppStepMap(p, currentApps), first, fault)

\* Update of the parent without its resources finalizer: the store then removes
\* the parent, whose deletion timestamp is set.
RemoveParentFinalizer(c) ==
    [c EXCEPT !.st = [@ EXCEPT !.finalizer = FALSE, !.exists = FALSE],
              !.writes = @ \cup {"parent.update"}]

\* Lines 155-167: what Reconcile makes of the result rd of the reverse deletion.
ReconcileDeleted(rd) ==
    IF rd.err # ""
    THEN Return(rd.c, "teardown", 0, rd.err, [NoProgress EXCEPT !.appStepMap = rd.appStepMap])
    ELSE IF rd.requeueTime > 0
         THEN Return(rd.c, "teardown", rd.requeueTime, "",
                     [NoProgress EXCEPT !.appStepMap = rd.appStepMap])
         ELSE IF UpdateFails("parent.update")
              THEN Return(Rejected(rd.c, "parent.update", 1), "teardown", 0, ConflictError,
                          [NoProgress EXCEPT !.appStepMap = rd.appStepMap])
              ELSE Return(RemoveParentFinalizer(rd.c), "teardown", 0, "",
                          [NoProgress EXCEPT !.appStepMap = rd.appStepMap])

\* The current applications as the manager's index of the children by owner
\* lists them to a call that has written children: the index follows the store
\* through watch events, so it answers from the store as the call found it
\* (c0, lag) or as the call has left it (c1).
IndexedApplications(c0, c1, lag) ==
    getCurrentApplications(IF lag THEN c0.apps ELSE c1.apps)

\* Lines 150-162, c1 being the reconcile after the owner references were seen to.
ReconcileReverse(c1, currentApplications, first, fault) ==
    ReconcileDeleted(
        IF isProgressiveSyncDeletionOrderReversed(c1.st)
        THEN performReverseDeletion(c1, c1.st, currentApplications, first, fault)
        ELSE ReverseResult(c1, 0, "", EmptyStatuses))

\* c1 is the reconcile after the owner references were seen to.
ReconcileUnowned(c, c1, first, fault, lag) ==
    ReconcileReverse(c1, IndexedApplications(c, c1, lag), first, fault)

\* Lines 145-147: the Update of the first child returned a conflict.
ReconcileDeletion(c, first, fault, lag) ==
    IF ~c.st.policy.delete /\ getCurrentApplications(c.apps) # <<>> /\ UpdateFails("child.update")
    THEN Return(Rejected(c, "child.update", 1), "teardown", 0, ConflictError, NoProgress)
    ELSE
    ReconcileUnowned(c, IF ~c.st.policy.delete THEN removeOwnerReferencesOnDeleteAppSet(c) ELSE c,
                     first, fault, lag)

(***************************************************************************)
(* The parent's resources summary and the requeue delay.                   *)
(***************************************************************************)
\* status.BuildResourceStatus and the sort by name: one entry per current
\* application.
ResourceStatuses(applications) ==
    [n \in NamesOf(applications) |-> "Application"]

\* The status update is issued whether or not the summary changed.
updateResourcesStatus(mem, c, applications) ==
    IF RetryOnConflictFails("status.resources")
    THEN [mem |-> [mem EXCEPT !.status.resources = ResourceStatuses(applications)],
          c |-> Rejected(c, "status.resources", RetrySteps),
          err |-> "unable to set application set status"]
    ELSE
    LET st2 == [c.st EXCEPT !.status.resources = ResourceStatuses(applications)]
    IN [mem |-> st2,
        c |-> [c EXCEPT !.st = st2, !.writes = @ \cup {"status.resources"}],
        err |-> ""]

RECURSIVE MinRequeueLoop(_, _)
MinRequeueLoop(requeueAfters, res) ==
    IF requeueAfters = <<>> THEN res
    ELSE LET t == Head(requeueAfters)
         IN MinRequeueLoop(Tail(requeueAfters),
                           IF res = 0 THEN t ELSE IF t # 0 /\ t < res THEN t ELSE res)

\* Variant: the first generator's request is returned.
getMinRequeueAfterFirst(p) ==
    IF p.generators = <<>> THEN 0 ELSE Head(p.generators)

getMinRequeueAfter(p) == MinRequeueLoop(p.generators, 0)

(***************************************************************************)
(* Reconcile of a parent that is not being deleted.                        *)
(***************************************************************************)
\* What Reconcile keeps of a call r of performProgressiveSyncs.
ProgressiveKept(mem, r, appMap) ==
    [mem |-> mem, c |-> r.c, appSyncMap |-> r.appSyncMap, appMap |-> appMap, err |-> r.err,
     ps |-> [ran |-> TRUE, appSyncMap |-> r.appSyncMap,
             appStepMap |-> r.appStepMap, passed |-> r.passed,
             appMapNames |-> DOMAIN appMap,
             healthyNames |-> {n \in DOMAIN appMap : isApplicationHealthy(appMap[n])}]]

\* What Reconcile keeps of the clean-up r of a left-over status list.
ProgressiveCleared(r) ==
    [mem |-> r.mem, c |-> r.c, appSyncMap |-> EmptyStatuses,
     appMap |-> EmptyStatuses, err |-> r.err, ps |-> NoProgress]

\* Variant: a status list left over from a RollingSync strategy is kept.
ProgressivePartKeeping(mem, c, currentApplications, generatedApplications) ==
    IF cfg.enableProgressiveSyncs /\ isRollingSyncStrategy(mem)
    THEN ProgressiveKept(mem,
                         performProgressiveSyncs(mem, c, currentApplications,
                                                 generatedApplications,
                                                 AppMapOf(currentApplications)),
                         AppMapOf(currentApplications))
    ELSE [mem |-> mem, c |-> c, appSyncMap |-> EmptyStatuses,
          appMap |-> EmptyStatuses, err |-> "", ps |-> NoProgress]

\* Lines 234-254: the progressive-sync part.  mem is Reconcile's own in-memory
\* parent; only the clean-up of a left-over status list writes through it.
ProgressivePart(mem, c, currentApplications, generatedApplications) ==
    IF cfg.enableProgressiveSyncs /\ ~isRollingSyncStrategy(mem)
       /\ DOMAIN mem.status.applicationStatus # {}
    THEN ProgressiveCleared(setAppSetApplicationStatus(mem, c, EmptyStatuses))
    ELSE IF cfg.enableProgressiveSyncs /\ isRollingSyncStrategy(mem)
         THEN ProgressiveKept(mem,
                              performProgressiveSyncs(mem, c, currentApplications,
                                                      generatedApplications,
                                                      AppMapOf(currentApplications)),
                              AppMapOf(currentApplications))
         ELSE [mem |-> mem, c |-> c, appSyncMap |-> EmptyStatuses,
               appMap |-> EmptyStatuses, err |-> "", ps |-> NoProgress]

\* Lines 343-359: the refresh annotation is removed with an Update of the parent.
RefreshPart(mem, c) ==
    IF mem.refresh /\ UpdateFails("parent.update")
    THEN [mem |-> [mem EXCEPT !.refresh = FALSE],
          c |-> Rejected(c, "parent.update", 1), err |-> ConflictError]
    ELSE IF mem.refresh
    THEN LET st2 == [c.st EXCEPT !.refresh = FALSE]
         IN [mem |-> st2, c |-> [c EXCEPT !.st = st2, !.writes = @ \cup {"parent.update"}],
             err |-> ""]
    ELSE [mem |-> mem, c |-> c, err |-> ""]

\* Variant: a failed generation is taken for an empty desired set.
ReconcileGenerationErrorPruning(c0) ==
    Return(deleteInCluster(
               setApplicationSetStatusCondition(c0.st, c0,
                   Cond("ErrorOccurred", "True", "ApplicationParamsGenerationError",
                        "generation failed"), FALSE).c,
               <<>>, gen),
           "generation", ReconcileRequeueOnValidationError, "", NoProgress)

\* Lines 178-192: generation failed.
ReconcileGenerationError(c0) ==
    Return(setApplicationSetStatusCondition(c0.st, c0,
               Cond("ErrorOccurred", "True", "ApplicationParamsGenerationError",
                    "generation failed"), FALSE).c,
           "generation", ReconcileRequeueOnValidationError, "", NoProgress)

\* Lines 263-288: the condition of the validation errors.
ValidationPart(mem, c, validateErrors) ==
    IF DOMAIN validateErrors # {}
    THEN setApplicationSetStatusCondition(mem, c,
             Cond("ErrorOccurred", "True", "ApplicationValidationError",
                  ValidationMessage(validateErrors)), TRUE)
    ELSE [mem |-> mem, c |-> c, err |-> ""]

\* Lines 256-261 and 290-295: the valid applications, with the sync operation
\* of those the progressive sync lets through.
ValidApps(mem, appSyncMap, appMap, generatedApplications, validateErrors) ==
    IF cfg.enableProgressiveSyncs /\ progressiveSyncsRollingSyncStrategyEnabled(mem)
    THEN syncValidApplications(mem, appSyncMap, appMap,
                               FilterValid(generatedApplications, validateErrors))
    ELSE FilterValid(generatedApplications, validateErrors)

\* Lines 297-325.
CreatePart(mem, c, validApps) ==
    IF mem.policy.update
    THEN createOrUpdateInCluster(c, validApps)
    ELSE createInCluster(c, validApps)

\* Variant: the deletion candidates are taken against the valid applications.
DeletePartOfValid(mem, c, g) ==
    IF mem.policy.delete
    THEN deleteInCluster(c, FilterValid(g.apps, validateGeneratedApplications(g.apps, g)), g)
    ELSE c

\* Variant: the sync policy is not asked.
DeletePartUnguarded(mem, c, g) == deleteInCluster(c, g.apps, g)

\* Lines 327-341.
DeletePart(mem, c, g) ==
    IF mem.policy.delete THEN deleteInCluster(c, g.apps, g) ELSE c

\* Lines 361-385: the requeue delay and the condition of a reconcile without
\* validation errors.  r6 is what the refresh part left.
\* r7 is what the last condition write left; lines 372-374 return its error.
ReconcileEnded(r7, validateErrors, requeueAfter, ps) ==
    IF r7.err # ""
    THEN Return(r7.c, "conditionError", 0, r7.err, ps)
    ELSE Return(r7.c, "complete",
                IF DOMAIN validateErrors # {} /\ requeueAfter = 0
                THEN ReconcileRequeueOnValidationError ELSE requeueAfter,
                "", ps)

ReconcileCompleted(r6, validateErrors, ps) ==
    ReconcileEnded(IF DOMAIN validateErrors = {}
                   THEN setApplicationSetStatusCondition(r6.mem, r6.c,
                            Cond("ResourcesUpToDate", "True", "ApplicationSetUpToDate",
                                 "All applications have been generated successfully"), TRUE)
                   ELSE [mem |-> r6.mem, c |-> r6.c, err |-> ""],
                   validateErrors, getMinRequeueAfter(r6.mem), ps)

\* Lines 346-358, r6 being what the refresh part left.
ReconcileRefreshed(r6, validateErrors, ps) ==
    IF r6.err # ""
    THEN Return(setApplicationSetStatusCondition(r6.mem, r6.c,
                    Cond("ErrorOccurred", "True", "RefreshApplicationError", r6.err),
                    TRUE).c,
                "refreshError", 0, r6.err, ps)
    ELSE ReconcileCompleted(r6, validateErrors, ps)

\* Lines 299-310, 313-324 and 329-340: createOrUpdateInCluster, createInCluster
\* or deleteInCluster returned an error.
ReconcileWriteError(mem, c, reason, ps) ==
    Return(setApplicationSetStatusCondition(mem, c,
               Cond("ErrorOccurred", "True", reason, c.firstError), TRUE).c,
           "error", 0, c.firstError, ps)

\* c5 is what the delete part left.
ReconcilePruned(mem, c5, validateErrors, ps) ==
    IF c5.firstError # ""
    THEN ReconcileWriteError(mem, c5, "DeleteApplicationError", ps)
    ELSE ReconcileRefreshed(RefreshPart(mem, c5), validateErrors, ps)

\* c4 is what the create part left.
ReconcileCreated(mem, c4, g, validateErrors, ps) ==
    IF c4.firstError # ""
    THEN ReconcileWriteError(mem, c4,
                             IF mem.policy.update THEN "UpdateApplicationError"
                             ELSE "CreateApplicationError", ps)
    ELSE ReconcilePruned(mem, DeletePart(mem, c4, g), validateErrors, ps)

\* r2 is what the progressive part left, r3 what the validation part left.
ReconcileValidated(r2, r3, g, validateErrors) ==
    ReconcileCreated(r3.mem,
                     CreatePart(r3.mem, r3.c,
                                ValidApps(r3.mem, r2.appSyncMap, r2.appMap,
                                          g.apps, validateErrors)),
                     g, validateErrors, r2.ps)

\* Lines 240-242 and 250-252: an error of the progressive part is returned.
ReconcileProgressed(r2, g, validateErrors) ==
    IF r2.err # "" THEN Return(r2.c, "statusError", 0, r2.err, r2.ps) ELSE
    ReconcileValidated(r2, ValidationPart(r2.mem, r2.c, validateErrors), g, validateErrors)

\* r1 is what updateResourcesStatus left; lines 225-227 return its error.
ReconcileListed(r1, currentApplications, g, validateErrors) ==
    IF r1.err # "" THEN Return(r1.c, "statusError", 0, r1.err, NoProgress) ELSE
    ReconcileProgressed(ProgressivePart(r1.mem, r1.c, currentApplications, g.apps),
                        g, validateErrors)

ReconcileGenerated(c0, g, validateErrors) ==
    ReconcileListed(updateResourcesStatus(c0.st, c0, getCurrentApplications(c0.apps)),
                    getCurrentApplications(c0.apps), g, validateErrors)

ReconcileNormal(c0, g) ==
    IF g.err
    THEN ReconcileGenerationError(c0)
    ELSE ReconcileGenerated(c0, g, validateGeneratedApplications(g.apps, g))

(***************************************************************************)
(* Reconcile.                                                              *)
(***************************************************************************)
\* last.after is what the step before the call was: the kind of the call it
\* followed without anything else happening in between, or "idle".  last.had
\* is the types of the conditions stored when the call began.
Idle ==
    [kind |-> "idle", after |-> "idle", had |-> {}, requeueAfter |-> 0, err |-> "", writes |-> {},
     created |-> {}, updated |-> {}, patched |-> {}, deleted |-> {}, failed |-> {},
     rejected |-> {}, ps |-> NoProgress]

ReconcileResult(first, fault, lag) ==
    IF ~appset.exists THEN Return(Begin, "notfound", 0, "", NoProgress)
    ELSE IF appset.deleting THEN ReconcileDeletion(Begin, first, fault, lag)
    ELSE ReconcileNormal(Begin, gen)

\* The choices a call is open to: outside the teardown there is none.
ReconcileChoice(first, fault, lag) ==
    /\ (~appset.exists \/ ~appset.deleting) => (first = 1 /\ fault = "none")
    /\ lag => (appset.exists /\ appset.deleting /\ ~appset.policy.delete)

\* What is recorded of a call that returned r.
Outcome(r) ==
    [kind |-> r.kind, after |-> last.kind,
     had |-> DOMAIN appset.status.conditions, requeueAfter |-> r.requeueAfter, err |-> r.err,
     writes |-> r.c.writes, created |-> r.c.created,
     updated |-> r.c.updated, patched |-> r.c.patched,
     deleted |-> r.c.deleted, failed |-> r.c.failed, rejected |-> r.c.rejected, ps |-> r.ps]

Reconcile ==
    \E first \in AppNames, fault \in Faults, lag \in BOOLEAN :
        /\ ReconcileChoice(first, fault, lag)
        /\ \E r \in {ReconcileResult(first, fault, lag)} :
            /\ appset' = r.c.st
            /\ apps' = r.c.apps
            /\ last' = Outcome(r)
            /\ UNCHANGED <<gen, cfg>>

\* No call of Reconcile would change anything: the store is as a call leaves
\* it and the call before returned what the next one would.
ReconcileQuiet ==
    \A first \in AppNames, fault \in Faults, lag \in BOOLEAN :
        ReconcileChoice(first, fault, lag) =>
            \A r \in {ReconcileResult(first, fault, lag)} :
                /\ r.c.st = appset
                /\ r.c.apps = apps
                /\ Outcome(r) = last

(***************************************************************************)
(* The environment.                                                        *)
(***************************************************************************)
\* What the application controller reports of a child: health, sync status and
\* operation phase.
Observations ==
    {[health |-> "Healthy", sync |-> "Synced", phase |-> "Succeeded"],
     [health |-> "Healthy", sync |-> "OutOfSync", phase |-> ""],
     [health |-> "Progressing", sync |-> "Synced", phase |-> "Running"]}

\* The application controller acts on a child: it takes up a requested
\* operation and reports a new status.
AppStatusChange ==
    \E n \in AppNames, o \in Observations :
        /\ apps[n].exists
        /\ apps[n].deleting = "no"
        /\ apps' = [apps EXCEPT ![n].health = o.health, ![n].sync = o.sync,
                                ![n].phase = o.phase, ![n].op = FALSE]
        /\ apps' # apps
        /\ last' = Idle
        /\ UNCHANGED <<appset, gen, cfg>>

\* The application controller compares a child for the first time: nothing of
\* it is deployed yet.
AppCompared ==
    \E n \in AppNames :
        /\ apps[n].exists
        /\ apps[n].deleting = "no"
        /\ apps[n].sync = ""
        /\ apps' = [apps EXCEPT ![n].health = "Missing", ![n].sync = "OutOfSync"]
        /\ last' = Idle
        /\ UNCHANGED <<appset, gen, cfg>>

\* The application controller starts the sync operation requested of a child.
AppSyncStarted ==
    \E n \in AppNames :
        /\ apps[n].exists
        /\ apps[n].deleting = "no"
        /\ apps[n].op
        /\ apps[n].phase # "Running"
        /\ apps' = [apps EXCEPT ![n].health = "Progressing", ![n].phase = "Running"]
        /\ last' = Idle
        /\ UNCHANGED <<appset, gen, cfg>>

\* The sync operation requested of a child succeeds: the child is Synced and
\* Healthy.
AppSynced ==
    \E n \in AppNames :
        /\ apps[n].exists
        /\ apps[n].deleting = "no"
        /\ apps[n].op
        /\ apps' = [apps EXCEPT ![n].health = "Healthy", ![n].sync = "Synced",
                                ![n].phase = "Succeeded", ![n].op = FALSE]
        /\ last' = Idle
        /\ UNCHANGED <<appset, gen, cfg>>

\* The generators, or the collaborators of the validation, answer differently.
GeneratorChange(outputs) ==
    \E g \in outputs :
        /\ g # gen
        /\ gen' = g
        /\ last' = Idle
        /\ UNCHANGED <<appset, apps, cfg>>

\* Another writer starts or stops getting in the way of one kind of write.
ConflictChange(conflicts) ==
    \E conflict \in conflicts :
        /\ conflict # cfg.conflict
        /\ cfg' = [cfg EXCEPT !.conflict = conflict]
        /\ last' = Idle
        /\ UNCHANGED <<appset, apps, gen>>

\* A user asks for a refresh: the parent gets the refresh annotation.
RefreshRequest ==
    /\ appset.exists
    /\ ~appset.deleting
    /\ ~appset.refresh
    /\ appset' = [appset EXCEPT !.refresh = TRUE]
    /\ last' = Idle
    /\ UNCHANGED <<apps, gen, cfg>>

\* The owner of the parent edits its strategy.
StrategyChange(strategies) ==
    \E s \in strategies :
        /\ appset.exists
        /\ s # appset.strategy
        /\ appset' = [appset EXCEPT !.strategy = s]
        /\ last' = Idle
        /\ UNCHANGED <<apps, gen, cfg>>

\* The owner deletes the parent: the store sets its deletion timestamp.
DeleteRequest ==
    /\ appset.exists
    /\ ~appset.deleting
    /\ appset' = [appset EXCEPT !.deleting = TRUE]
    /\ last' = Idle
    /\ UNCHANGED <<apps, gen, cfg>>

\* The application controller finishes the deletion of a child marked for it
\* and drops its finalizer.
ChildFinalized ==
    \E n \in AppNames :
        /\ apps[n].exists
        /\ apps[n].deleting # "no"
        /\ apps' = [apps EXCEPT ![n] = Gone(n)]
        /\ last' = Idle
        /\ UNCHANGED <<appset, gen, cfg>>

\* More than two minutes pass over a child marked for deletion.
TimePasses ==
    \E n \in AppNames :
        /\ apps[n].exists
        /\ apps[n].deleting = "marked"
        /\ apps' = [apps EXCEPT ![n].deleting = "stale"]
        /\ last' = Idle
        /\ UNCHANGED <<appset, gen, cfg>>

\* Someone else creates an Application under a child's name; the parent is not
\* its owner.
ForeignCreate ==
    \E n \in AppNames :
        /\ ~apps[n].exists
        /\ apps' = [apps EXCEPT ![n] = [NoApp EXCEPT !.name = n, !.exists = TRUE, !.spec = 9]]
        /\ last' = Idle
        /\ UNCHANGED <<appset, gen, cfg>>

\* The store's garbage collection deletes a child whose owner is gone.
GarbageCollect ==
    \E n \in AppNames :
        /\ ~appset.exists
        /\ apps[n].exists
        /\ apps[n].owned
        /\ apps' = DeleteChild(apps, n)
        /\ apps' # apps
        /\ last' = Idle
        /\ UNCHANGED <<appset, gen, cfg>>

(***************************************************************************)
(* The step selection of performProgressiveSyncs on the parent, the        *)
(* desired applications and the children as they are, outside of           *)
(* Reconcile: lines 935 and 947.                                           *)
(***************************************************************************)
StepSelection ==
    /\ last.kind = "idle"
    /\ last' = [kind |-> "selected",
                appDependencyList |-> AppDependencyList(appset, gen.apps),
                appStepMap |-> AppStepMap(appset, gen.apps),
                appSyncMap |-> buildAppSyncMap(appset, AppDependencyList(appset, gen.apps),
                                               AppMapOf(getCurrentApplications(apps)))]
    /\ UNCHANGED <<appset, apps, gen, cfg>>

(***************************************************************************)
(* One call of updateApplicationSetApplicationStatus on the parent and the *)
(* children as they are, outside of Reconcile: the status list before and  *)
(* after the pass are kept.                                                *)
(***************************************************************************)
StatusPass ==
    /\ last.kind = "idle"
    /\ \E r \in {updateApplicationSetApplicationStatus(appset, Begin, getCurrentApplications(apps),
                                                       AppStepMap(appset, gen.apps))} :
          /\ appset' = r.c.st
          /\ last' = [kind |-> "statusPass", before |-> appset.status.applicationStatus,
                      passed |-> r.mem.status.applicationStatus]
    /\ UNCHANGED <<apps, gen, cfg>>

(***************************************************************************)
(* One call of updateApplicationSetApplicationStatusProgress with the step *)
(* and allow maps of the parent as it is, outside of Reconcile: the status *)
(* list before and after the pass are kept.                                *)
(***************************************************************************)
ProgressPass ==
    /\ last.kind = "idle"
    /\ \E r \in {updateApplicationSetApplicationStatusProgress(
                     appset, Begin,
                     buildAppSyncMap(appset, AppDependencyList(appset, gen.apps),
                                     AppMapOf(getCurrentApplications(apps))),
                     AppStepMap(appset, gen.apps))} :
          /\ appset' = r.c.st
          /\ last' = [kind |-> "progressPass", before |-> appset.status.applicationStatus,
                      progressed |-> r.mem.status.applicationStatus,
                      appStepMap |-> AppStepMap(appset, gen.apps)]
    /\ UNCHANGED <<apps, gen, cfg>>

(***************************************************************************)
(* The predicate of the watch on the children.  An Application is seen as  *)
(* what the predicate reads of it: spec, annotations, labels, finalizers   *)
(* (each nil, empty or set), health and sync status, and the operation     *)
(* state, which may be absent.                                             *)
(***************************************************************************)
\* cmp.Equal with cmpopts.EquateEmpty on a map or a slice.
EquateEmpty(a, b) ==
    a = b \/ (a \in {"nil", "empty"} /\ b \in {"nil", "empty"})

shouldRequeueForApplication(appOld, appNew, enableProgressiveSyncs) ==
    IF \/ appOld.spec # appNew.spec
       \/ ~EquateEmpty(appOld.annotations, appNew.annotations)
       \/ ~EquateEmpty(appOld.labels, appNew.labels)
       \/ ~EquateEmpty(appOld.finalizers, appNew.finalizers)
    THEN TRUE
    ELSE IF enableProgressiveSyncs
            /\ (appOld.health # appNew.health \/ appOld.sync # appNew.sync)
         THEN TRUE
         ELSE IF /\ enableProgressiveSyncs
                 /\ appOld.operationState.present
                 /\ appNew.operationState.present
                 /\ \/ appOld.operationState.phase # appNew.operationState.phase
                    \/ appOld.operationState.startedAt # appNew.operationState.startedAt
              THEN TRUE
              ELSE FALSE

\* getApplicationOwnsHandler(enableProgressiveSyncs), applied to an event on an
\* Application.
getApplicationOwnsHandler(enableProgressiveSyncs, event, appOld, appNew) ==
    CASE event = "create" -> FALSE
      [] event = "delete" -> TRUE
      [] event = "update" -> shouldRequeueForApplication(appOld, appNew, enableProgressiveSyncs)
      [] event = "generic" -> TRUE

\* The watch delivers the pending event to the predicate.
ChildEvent ==
    /\ last.kind = "event"
    /\ last' = [last EXCEPT !.kind = "delivered",
                            !.requeue = getApplicationOwnsHandler(cfg.enableProgressiveSyncs,
                                                                  last.event, last.old, last.new)]
    /\ UNCHANGED <<appset, apps, gen, cfg>>

(***************************************************************************)
(* The predicate of the watch on the parent.  An ApplicationSet is seen as *)
(* spec, labels and finalizers (nil, empty or set), whether it carries a   *)
(* deletion timestamp, its annotations (nil or a map that may hold the     *)
(* refresh annotation and one other key), and its status: the application  *)
(* status list and the rest (conditions).                                  *)
(***************************************************************************)
\* cmp.Equal with cmpopts.EquateEmpty on two annotation maps.
AnnotationsEqual(a, b) == a.refresh = b.refresh /\ a.other = b.other

shouldRequeueForApplicationSetAnyAnnotation(appSetOld, appSetNew, enableProgressiveSyncs) ==
    IF enableProgressiveSyncs
       /\ ~EquateEmpty(appSetOld.applicationStatus, appSetNew.applicationStatus)
    THEN TRUE
    ELSE IF \/ appSetOld.spec # appSetNew.spec
            \/ ~EquateEmpty(appSetOld.labels, appSetNew.labels)
            \/ ~EquateEmpty(appSetOld.finalizers, appSetNew.finalizers)
            \/ appSetOld.deleting # appSetNew.deleting
         THEN TRUE
         ELSE ~AnnotationsEqual(appSetOld.annotations, appSetNew.annotations)

shouldRequeueForApplicationSet(appSetOld, appSetNew, enableProgressiveSyncs) ==
    IF enableProgressiveSyncs
       /\ ~EquateEmpty(appSetOld.applicationStatus, appSetNew.applicationStatus)
    THEN TRUE
    ELSE IF \/ appSetOld.spec # appSetNew.spec
            \/ ~EquateEmpty(appSetOld.labels, appSetNew.labels)
            \/ ~EquateEmpty(appSetOld.finalizers, appSetNew.finalizers)
            \/ appSetOld.deleting # appSetNew.deleting
         THEN TRUE
         ELSE IF ~AnnotationsEqual(appSetOld.annotations, appSetNew.annotations)
              THEN IF appSetOld.annotations.refresh /\ ~appSetNew.annotations.refresh
                   THEN FALSE
                   ELSE TRUE
              ELSE FALSE

\* getApplicationSetOwnsHandler(enableProgressiveSyncs), applied to an event on
\* an ApplicationSet.
getApplicationSetOwnsHandler(enableProgressiveSyncs, event, appSetOld, appSetNew) ==
    CASE event = "create" -> TRUE
      [] event = "delete" -> TRUE
      [] event = "update" -> shouldRequeueForApplicationSet(appSetOld, appSetNew,
                                                            enableProgressiveSyncs)
      [] event = "generic" -> TRUE

\* The watch delivers the pending event on the parent to the predicate.
ParentEvent ==
    /\ last.kind = "parentEvent"
    /\ last' = [last EXCEPT !.kind = "parentDelivered",
                            !.requeue = getApplicationSetOwnsHandler(cfg.enableProgressiveSyncs,
                                                                     last.event, last.old, last.new)]
    /\ UNCHANGED <<appset, apps, gen, cfg>>

(***************************************************************************)
(* Parents, steps and fleets the specifications start from.                *)
(***************************************************************************)
In(values) == [operator |-> "In", values |-> values]

Step(matchExpressions, maxUpdate) ==
    [matchExpressions |-> matchExpressions, maxUpdate |-> maxUpdate]

IntMax(n) == [type |-> "int", val |-> n]
PctMax(n) == [type |-> "pct", val |-> n]

Strategy(type, steps, deletionOrder) ==
    [type |-> type, steps |-> steps, deletionOrder |-> deletionOrder]

NoStatus ==
    [conditions |-> NoConditions, applicationStatus |-> EmptyStatuses,
     resources |-> EmptyStatuses]

\* A parent as its owner creates it: no status yet, resources finalizer set.
Parent(strategy, policy) ==
    [exists |-> TRUE, deleting |-> FALSE, finalizer |-> TRUE, refresh |-> FALSE,
     generators |-> <<0>>, strategy |-> strategy, policy |-> policy, status |-> NoStatus]

AllowAll == [update |-> TRUE, delete |-> TRUE]

Desired(n, label) == [name |-> n, label |-> label, spec |-> 1, finalizer |-> FALSE, op |-> FALSE]

\* Generator outputs: one application per name, labelled by its position.
SpreadLabel(n) == IF n % 3 = 1 THEN "dev" ELSE IF n % 3 = 2 THEN "qa" ELSE "prod"

FleetSpread == [k \in 1..NumApps |-> Desired(k, SpreadLabel(k))]
FleetSame == [k \in 1..NumApps |-> Desired(k, "dev")]
FleetPartly == [k \in 1..NumApps |-> Desired(k, IF k <= 2 THEN "dev" ELSE NoLabel)]

Generated(applications) ==
    [err |-> FALSE, apps |-> applications, noProject |-> {}, badDest |-> {}]

ThreeSteps ==
    <<Step(<<In({"dev"})>>, IntMax(1)),
      Step(<<In({"qa"})>>, NoMaxUpdate),
      Step(<<In({"prod"})>>, IntMax(1))>>

OneStep == <<Step(<<In({"dev"})>>, IntMax(1))>>

OneStepPct == <<Step(<<In({"dev"})>>, PctMax(70))>>

\* A fleet that lacks the last name.
FleetShort == [k \in 1..(NumApps - 1) |-> Desired(k, "dev")]

(***************************************************************************)
(* SpecRollout: progressive sync under fixed steps, while the application  *)
(* controller reports on the children and the generators' output changes.  *)
(***************************************************************************)
RolloutSteps == {ThreeSteps, OneStep, OneStepPct}

\* The fleets the generators answer with, in the order they come.
RolloutFleets == <<FleetSpread, FleetSame, FleetShort>>

\* The generators answer with a later fleet.
FleetChange ==
    \E i, j \in 1..Len(RolloutFleets) :
        /\ gen.apps = RolloutFleets[i]
        /\ i < j
        /\ gen' = [gen EXCEPT !.apps = RolloutFleets[j]]
        /\ last' = Idle
        /\ UNCHANGED <<appset, apps, cfg>>

InitRollout ==
    \E steps \in RolloutSteps, f \in Range(RolloutFleets) :
        /\ appset = Parent(Strategy("RollingSync", steps, ""), AllowAll)
        /\ apps = [n \in AppNames |-> Gone(n)]
        /\ gen = Generated(f)
        /\ cfg = [enableProgressiveSyncs |-> TRUE, failing |-> {}, conflict |-> NoConflict]
        /\ last = Idle

NextRollout == Reconcile \/ AppStatusChange \/ FleetChange

SpecRollout == InitRollout /\ [][NextRollout]_vars

(***************************************************************************)
(* SpecSingleStep: the rollout of the children of one step with            *)
(* maxUpdate = 1.  Reconciles keep being run, the application controller   *)
(* gets to compare every new child, and a requested sync operation         *)
(* eventually succeeds.                                                    *)
(***************************************************************************)
InitSingleStep ==
    /\ appset = Parent(Strategy("RollingSync", OneStep, ""), AllowAll)
    /\ apps = [n \in AppNames |-> Gone(n)]
    /\ gen = Generated(FleetSame)
    /\ cfg = [enableProgressiveSyncs |-> TRUE, failing |-> {}, conflict |-> NoConflict]
    /\ last = Idle

NextSingleStep == Reconcile \/ AppCompared \/ AppSyncStarted \/ AppSynced

\* Weak fairness of Reconcile, with its enabling condition written out: the
\* parent is reconciled again and again unless that would change nothing.
ReconcileKeepsRunning ==
    []<>ReconcileQuiet \/ []<><<Reconcile>>_vars

SpecSingleStep ==
    /\ InitSingleStep
    /\ [][NextSingleStep]_vars
    /\ ReconcileKeepsRunning
    /\ WF_vars(AppCompared)
    /\ WF_vars(AppSynced)

\* The status entries that are Pending or Progressing.
InFlightEntries ==
    {n \in DOMAIN appset.status.applicationStatus :
        appset.status.applicationStatus[n].status \in {"Pending", "Progressing"}}

\* Every child has a Healthy status entry and the rollout is reported complete.
RolloutDone ==
    /\ DOMAIN appset.status.applicationStatus = AppNames
    /\ \A n \in AppNames : appset.status.applicationStatus[n].status = "Healthy"
    /\ "RolloutProgressing" \in DOMAIN appset.status.conditions
    /\ appset.status.conditions["RolloutProgressing"].status = "False"

\* C19: with the children all in one step with maxUpdate = 1, reconciles kept
\* running and every requested sync operation eventually succeeding, the parent
\* eventually has all status entries Healthy and RolloutProgressing=False, and
\* at no time is more than one entry Pending or Progressing.
C19_RolloutCompletesOneAtATime ==
    /\ [](Cardinality(InFlightEntries) <= 1)
    /\ <>RolloutDone

\* The rollout is done: every child was synced on request, one after the other.
C19_Witness ==
    /\ RolloutDone
    /\ last.kind = "complete"
    /\ \A n \in AppNames :
          /\ apps[n].sync = "Synced"
          /\ apps[n].phase = "Succeeded"
          /\ apps[n].health = "Healthy"

\* The status of the entry of child n in the status list of parent p, or ""
\* where the list has no entry of it.
EntryStatus(p, n) ==
    IF n \in DOMAIN p.status.applicationStatus
    THEN p.status.applicationStatus[n].status
    ELSE ""

\* The step is a call of Reconcile in which the sync operation of child n was
\* requested.
SyncRequested(n) == apps'[n].exists /\ apps'[n].op /\ ~apps[n].op

\* The step is a call of Reconcile that made the entry of child n Pending.
PromotedToPending(n) ==
    /\ EntryStatus(appset, n) # "Pending"
    /\ EntryStatus(appset', n) = "Pending"

\* A sync operation is requested only of a child the allow map enables, whose
\* entry in the stored status list is Pending and whose live sync status is
\* OutOfSync.
SyncOnlyOfStoredPending ==
    \A n \in AppNames :
        SyncRequested(n) =>
            /\ SyncAllowed(last'.ps.appSyncMap, n)
            /\ EntryStatus(appset', n) = "Pending"
            /\ apps[n].sync = "OutOfSync"

\* A child whose entry a reconcile makes Pending is asked to sync by it.
SyncOfPromoted ==
    \A n \in AppNames :
        (PromotedToPending(n) /\ apps[n].exists /\ apps[n].sync = "OutOfSync")
            => apps'[n].op

\* C29: a reconcile requests the sync operation of a child only if the allow
\* map enables the child, its entry in the status list stored on the parent is
\* Pending and its live sync status is OutOfSync; and a child whose entry the
\* reconcile makes Pending gets its sync operation in that same reconcile.
C29_SyncOperationOfPending ==
    [][last'.kind = "complete" => (SyncOnlyOfStoredPending /\ SyncOfPromoted)]_vars

\* The status of the entry of child n in a status list, or "" where the list
\* has no entry of it.
StatusIn(statuses, n) ==
    IF n \in DOMAIN statuses THEN statuses[n].status ELSE ""

\* The list a reconcile stored after its first pass, or the list it found
\* where the progressive sync did not run.
FirstStored == IF last'.ps.ran THEN last'.ps.passed ELSE appset.status.applicationStatus

\* C36: across the per-app status lists stored one after the other (by the
\* first pass and then by the second pass of every reconcile), an entry that
\* is Progressing was Pending or Progressing in the list stored before, never
\* Waiting, Healthy or absent.
C36_ProgressingOnlyFromPending ==
    [][\A n \in AppNames :
          /\ StatusIn(FirstStored, n) = "Progressing"
                => EntryStatus(appset, n) \in {"Pending", "Progressing"}
          /\ EntryStatus(appset', n) = "Progressing"
                => StatusIn(FirstStored, n) \in {"Pending", "Progressing"}]_vars

\* A reconcile has just moved an entry from Pending to Progressing.
C36_Witness ==
    /\ last.kind = "complete"
    /\ last.ps.ran
    /\ \E n \in AppNames :
          /\ EntryStatus(appset, n) = "Progressing"
          /\ apps[n].phase = "Running"
          /\ appset.status.applicationStatus[n].message
                = "Application resource became Progressing, updating status from Pending to Progressing."

\* The step is a reconcile that ran the progressive sync while no step selected
\* child n.
ReconciledUnmatched(n) ==
    /\ last'.kind = "complete"
    /\ last'.ps.ran
    /\ n \notin DOMAIN last'.ps.appStepMap

\* C37: a reconcile in which no step selects a child does not make the entry
\* of the child Pending and does not request a sync operation of it.
C37_UnmatchedNeverPromoted ==
    [][\A n \in AppNames :
          ReconciledUnmatched(n) =>
              /\ ~PromotedToPending(n)
              /\ StatusIn(FirstStored, n) = "Waiting" => EntryStatus(appset', n) # "Pending"
              /\ ~SyncRequested(n)]_vars

\* A reconcile has left the entry of a child no step selects Waiting at Step
\* -1, the child being OutOfSync, while it made the entry of a selected child
\* Pending.
C37_Witness ==
    /\ last.kind = "complete"
    /\ last.ps.ran
    /\ \E n \in AppNames \ DOMAIN last.ps.appStepMap :
          /\ EntryStatus(appset, n) = "Waiting"
          /\ appset.status.applicationStatus[n].step = NoStep
          /\ apps[n].sync = "OutOfSync"
          /\ ~apps[n].op
    /\ \E m \in DOMAIN last.ps.appStepMap :
          /\ EntryStatus(appset, m) = "Pending"
          /\ StatusIn(last.ps.passed, m) = "Waiting"

(***************************************************************************)
(* SpecWatch: one event on a child is delivered to the watch predicate.    *)
(***************************************************************************)
MapValues == {"nil", "empty", "set"}

NoOperationState == [present |-> FALSE, phase |-> "", startedAt |-> ""]

OperationStates ==
    {NoOperationState}
    \cup [present : {TRUE}, phase : {"Running", "Succeeded"}, startedAt : {"t1", "t2"}]

AppViews ==
    [spec : {1, 2}, annotations : MapValues, labels : MapValues, finalizers : MapValues,
     health : {"Healthy", "Progressing"}, sync : {"Synced", "OutOfSync"},
     operationState : OperationStates]

\* The Application after an edit of at most one of the fields.
Edits(app) ==
    {app}
    \cup {[app EXCEPT !.spec = x] : x \in {1, 2}}
    \cup {[app EXCEPT !.annotations = x] : x \in MapValues}
    \cup {[app EXCEPT !.labels = x] : x \in MapValues}
    \cup {[app EXCEPT !.finalizers = x] : x \in MapValues}
    \cup {[app EXCEPT !.health = x] : x \in {"Healthy", "Progressing"}}
    \cup {[app EXCEPT !.sync = x] : x \in {"Synced", "OutOfSync"}}
    \cup {[app EXCEPT !.operationState = x] : x \in OperationStates}

\* A nil map, or a map with or without the refresh annotation and with at most
\* one other key, whose value is a or b.
AnnotationMaps ==
    {m \in [isNil : BOOLEAN, refresh : BOOLEAN, other : {"", "a", "b"}] :
        m.isNil => (~m.refresh /\ m.other = "")}

AppSetViews ==
    [spec : {1, 2}, labels : MapValues, finalizers : {"nil", "set"}, deleting : BOOLEAN,
     annotations : AnnotationMaps, applicationStatus : {"nil", "empty", "s1", "s2"},
     conditions : {"c1", "c2"}]

\* The ApplicationSet after an edit of at most one of the fields; an edit of the
\* annotations may add, remove and change several keys at once.
AppSetEdits(appSet) ==
    {appSet}
    \cup {[appSet EXCEPT !.spec = x] : x \in {1, 2}}
    \cup {[appSet EXCEPT !.labels = x] : x \in MapValues}
    \cup {[appSet EXCEPT !.finalizers = x] : x \in {"nil", "set"}}
    \cup {[appSet EXCEPT !.deleting = x] : x \in BOOLEAN}
    \cup {[appSet EXCEPT !.annotations = x] : x \in AnnotationMaps}
    \cup {[appSet EXCEPT !.applicationStatus = x] : x \in {"nil", "empty", "s1", "s2"}}
    \cup {[appSet EXCEPT !.conditions = x] : x \in {"c1", "c2"}}

InitWatchParent ==
    \E event \in {"create", "update", "delete", "generic"}, enabled \in BOOLEAN :
        \E appSetOld \in AppSetViews :
            \E appSetNew \in AppSetEdits(appSetOld) :
                /\ event # "update" => appSetNew = appSetOld
                /\ appset = Parent(Strategy("RollingSync", OneStep, ""), AllowAll)
                /\ apps = [n \in AppNames |-> Gone(n)]
                /\ gen = Generated(FleetSame)
                /\ cfg = [enableProgressiveSyncs |-> enabled, failing |-> {}, conflict |-> NoConflict]
                /\ last = [kind |-> "parentEvent", event |-> event, old |-> appSetOld,
                           new |-> appSetNew, requeue |-> FALSE]

InitWatchChild ==
    \E event \in {"create", "update", "delete", "generic"}, enabled \in BOOLEAN :
        \E appOld \in AppViews :
            \E appNew \in Edits(appOld) :
                /\ event # "update" => appNew = appOld
                /\ appset = Parent(Strategy("RollingSync", OneStep, ""), AllowAll)
                /\ apps = [n \in AppNames |-> Gone(n)]
                /\ gen = Generated(FleetSame)
                /\ cfg = [enableProgressiveSyncs |-> enabled, failing |-> {}, conflict |-> NoConflict]
                /\ last = [kind |-> "event", event |-> event, old |-> appOld,
                           new |-> appNew, requeue |-> FALSE]

InitWatch == InitWatchChild \/ InitWatchParent

NextWatch == ChildEvent \/ ParentEvent

SpecWatch == InitWatch /\ [][NextWatch]_vars

\* What the parent owns of a child changed, empty and nil taken as equal.
OwnedFieldsChanged(appOld, appNew) ==
    \/ appOld.spec # appNew.spec
    \/ \E f \in {"annotations", "labels", "finalizers"} :
          /\ appOld[f] # appNew[f]
          /\ {appOld[f], appNew[f]} # {"nil", "empty"}

\* Health status, sync status or the operation state's phase or start changed;
\* an operation state that appears or disappears counts as a change.
RuntimeStatusChanged(appOld, appNew) ==
    \/ appOld.health # appNew.health
    \/ appOld.sync # appNew.sync
    \/ appOld.operationState # appNew.operationState

\* C20: the predicate never enqueues the parent on a child create event,
\* always on a child delete event, and on a child update event iff spec,
\* annotations, labels or finalizers changed (empty and nil equal) or, with
\* progressive syncs enabled, health status, sync status or the operation
\* state's phase or started-at changed, its appearing or disappearing included.
C20_ChildEventPredicate ==
    last.kind = "delivered" =>
        /\ last.event = "create" => ~last.requeue
        /\ last.event = "delete" => last.requeue
        /\ last.event = "update" =>
              (last.requeue <=>
                  \/ OwnedFieldsChanged(last.old, last.new)
                  \/ /\ cfg.enableProgressiveSyncs
                     /\ RuntimeStatusChanged(last.old, last.new))

\* Spec, labels, finalizers or the deletion timestamp of the parent changed.
ParentFieldsChanged(appSetOld, appSetNew) ==
    \/ appSetOld.spec # appSetNew.spec
    \/ ~EquateEmpty(appSetOld.labels, appSetNew.labels)
    \/ ~EquateEmpty(appSetOld.finalizers, appSetNew.finalizers)
    \/ appSetOld.deleting # appSetNew.deleting

\* The annotations changed, and the change is more than the removal of the
\* refresh annotation.
AnnotationsChangedBeyondRefresh(appSetOld, appSetNew) ==
    /\ ~AnnotationsEqual(appSetOld.annotations, appSetNew.annotations)
    /\ ~(/\ appSetOld.annotations.refresh
         /\ ~appSetNew.annotations.refresh
         /\ appSetOld.annotations.other = appSetNew.annotations.other)

\* C21 as stated: on a parent update event the predicate enqueues iff spec,
\* labels, finalizers or deletion timestamp changed, or the annotations changed
\* in any way other than solely the removal of the refresh annotation; an
\* update that changes only status does not enqueue.
C21_ParentUpdateAsStated ==
    (last.kind = "parentDelivered" /\ last.event = "update") =>
        (last.requeue <=>
            \/ ParentFieldsChanged(last.old, last.new)
            \/ AnnotationsChangedBeyondRefresh(last.old, last.new))

\* C21 amended: on a parent update event the predicate enqueues iff, with
\* progressive syncs enabled, the application status list changed, or spec,
\* labels, finalizers or deletion timestamp changed, or the annotations changed
\* and the update does not remove the refresh annotation; an update that
\* removes the refresh annotation and changes nothing but annotations does not
\* enqueue, whatever else it does to the annotations.
C21_ParentUpdatePredicate ==
    (last.kind = "parentDelivered" /\ last.event = "update") =>
        (last.requeue <=>
            \/ /\ cfg.enableProgressiveSyncs
               /\ ~EquateEmpty(last.old.applicationStatus, last.new.applicationStatus)
            \/ ParentFieldsChanged(last.old, last.new)
            \/ /\ ~AnnotationsEqual(last.old.annotations, last.new.annotations)
               /\ ~(last.old.annotations.refresh /\ ~last.new.annotations.refresh))

\* An update that removed the refresh annotation and changed another annotation
\* was delivered and did not enqueue the parent.
C21_Witness ==
    /\ last.kind = "parentDelivered"
    /\ last.event = "update"
    /\ last.old.annotations.refresh
    /\ ~last.new.annotations.refresh
    /\ last.old.annotations.other = "a"
    /\ last.new.annotations.other = "b"
    /\ ~last.requeue

(***************************************************************************)
(* SpecMaterialize: create, update and delete of the children while the    *)
(* generators' output and the validation's answers change.                 *)
(***************************************************************************)
FleetTwo == <<Desired(1, "dev"), Desired(2, "dev")>>

FleetOne == <<Desired(1, "dev")>>

\* Fleet of two in a new version of the template.
FleetTwoNew == <<[Desired(1, "dev") EXCEPT !.spec = 2], [Desired(2, "dev") EXCEPT !.spec = 2]>>

GenerationFailed == [err |-> TRUE, apps |-> <<>>, noProject |-> {}, badDest |-> {}]

\* The generators answer with the first name twice, in two versions, and the
\* second name once.
FleetDuplicate ==
    <<Desired(1, "dev"), [Desired(1, "dev") EXCEPT !.spec = 2], Desired(2, "dev")>>

MaterializeOutputs ==
    {Generated(FleetTwo), Generated(FleetOne), Generated(FleetTwoNew),
     Generated(FleetDuplicate),
     [Generated(FleetTwo) EXCEPT !.noProject = {2}],
     [Generated(FleetTwoNew) EXCEPT !.noProject = {2}],
     GenerationFailed}

MaterializeStrategies ==
    {Strategy("", <<>>, ""), Strategy("RollingSync", OneStep, "")}

\* The requeue delays, in seconds, the parent's generators ask for (0: none).
MaterializeRequeues == {<<0>>, <<0, 600, 60>>, <<600, 0>>}

InitMaterialize ==
    \E s \in MaterializeStrategies, g \in MaterializeOutputs, t \in MaterializeRequeues :
        /\ appset = [Parent(s, AllowAll) EXCEPT !.generators = t]
        /\ apps = [n \in AppNames |-> Gone(n)]
        /\ gen = g
        /\ cfg = [enableProgressiveSyncs |-> TRUE, failing |-> {}, conflict |-> NoConflict]
        /\ last = Idle

NextMaterialize == Reconcile \/ GeneratorChange(MaterializeOutputs)

SpecMaterialize == InitMaterialize /\ [][NextMaterialize]_vars

(***************************************************************************)
(* Properties of the materializer.                                         *)
(***************************************************************************)
HasCondition(type) == type \in DOMAIN appset.status.conditions

ConditionIs(type, status) ==
    HasCondition(type) /\ appset.status.conditions[type].status = status

\* The last step was a completed Reconcile and one more would leave the store
\* as it is.
Converged ==
    /\ last.kind = "complete"
    /\ \E r \in {ReconcileResult(1, "none", FALSE)} : r.c.st = appset /\ r.c.apps = apps

LiveOwned == {n \in AppNames : apps[n].exists /\ apps[n].owned /\ apps[n].deleting = "no"}

GeneratedNames == NamesOf(gen.apps)

ValidNames == NamesOf(FilterValid(gen.apps, validateGeneratedApplications(gen.apps, gen)))

AllowsAll == appset.policy.update /\ appset.policy.delete

\* C3 as stated: once reconciles have converged under a policy allowing create,
\* update and delete, the live children owned by the parent are exactly the
\* desired children that passed validation.
C3_LiveEqualsValid ==
    (Converged /\ AllowsAll) => LiveOwned = ValidNames

\* C3, amended: once reconciles have converged under such a policy, every
\* desired child that passed validation is live and owned, and every live owned
\* child is a desired one, valid or not: a child that is live when its desired
\* application starts failing validation is kept.
C3_LiveBetweenValidAndGenerated ==
    (Converged /\ AllowsAll) =>
        /\ ValidNames \subseteq LiveOwned
        /\ LiveOwned \subseteq GeneratedNames

\* Converged with a desired child that fails validation and is not live, and
\* the valid ones live.
C3_Witness ==
    /\ Converged
    /\ AllowsAll
    /\ ValidNames # {}
    /\ ValidNames # GeneratedNames
    /\ LiveOwned = ValidNames

\* C38: a reconcile of a parent that is not being deleted never deletes a live
\* child whose name is in the generated set, also when the desired child of
\* that name failed validation and is left out of create and update.
C38_GeneratedNeverDeleted ==
    (last.kind # "idle" /\ last.kind # "teardown") =>
        /\ last.deleted \cap GeneratedNames = {}
        /\ \A n \in GeneratedNames \ ValidNames :
              n \notin last.created \cup last.updated

\* A reconcile under a policy that allows delete updated the valid child to
\* the new template and kept, as it was, the live child of a desired
\* application that fails validation.
C38_Witness ==
    /\ last.kind = "complete"
    /\ appset.policy.delete
    /\ last.updated # {}
    /\ \E n \in GeneratedNames \ ValidNames :
          /\ n \in LiveOwned
          /\ \E k \in 1..Len(gen.apps) :
                gen.apps[k].name = n /\ gen.apps[k].spec # apps[n].spec

\* C4: a reconcile that follows a completed reconcile with nothing external in
\* between issues no write to the store: no child create, update, patch or
\* delete, no parent update and no status update.
C4_SecondReconcileWritesNothing ==
    (last.kind # "idle" /\ last.after = "complete") => last.writes = {}

\* The names the desired set holds more than once.
DuplicateNames ==
    {n \in GeneratedNames :
        Cardinality({k \in 1..Len(gen.apps) : gen.apps[k].name = n}) > 1}

\* The first desired application of a name.
FirstOfName(n) ==
    gen.apps[CHOOSE k \in 1..Len(gen.apps) :
                /\ gen.apps[k].name = n
                /\ \A j \in 1..(k - 1) : gen.apps[j].name # n]

\* C12: when the desired set holds two children of one name, only the
\* duplicate fails validation: after the reconcile the first child of that name
\* is in the store as created or updated from its desired application, owned by
\* the parent, and ErrorOccurred=True with reason ApplicationValidationError is
\* set.
C12_FirstOfDuplicateCreated ==
    (last.kind = "complete" /\ appset.policy.update) =>
        \A n \in DuplicateNames :
            /\ apps[n].exists
            /\ apps[n].owned
            /\ apps[n].spec = FirstOfName(n).spec
            /\ "ErrorOccurred" \in DOMAIN appset.status.conditions
            /\ appset.status.conditions["ErrorOccurred"].status = "True"
            /\ appset.status.conditions["ErrorOccurred"].reason = "ApplicationValidationError"

\* C13: a Reconcile whose generation fails sets ErrorOccurred=True with
\* ParametersGenerated=False, returns RequeueAfter = 3 minutes with a nil error
\* and creates, updates, patches and deletes no child.
C13_GenerationErrorTouchesNoChild ==
    last.kind = "generation" =>
        /\ ConditionIs("ErrorOccurred", "True")
        /\ ConditionIs("ParametersGenerated", "False")
        /\ last.requeueAfter = ReconcileRequeueOnValidationError
        /\ last.err = ""
        /\ last.created = {} /\ last.updated = {}
        /\ last.patched = {} /\ last.deleted = {}
        /\ last.writes \subseteq {"status.conditions"}

\* Generation failed in a Reconcile that found two live children and the
\* conditions of a completed reconcile; the children are still there.
C13_Witness ==
    /\ last.kind = "generation"
    /\ "ResourcesUpToDate" \in last.had
    /\ "status.conditions" \in last.writes
    /\ LiveOwned = {1, 2}
    /\ ConditionIs("ErrorOccurred", "True")

\* The non-zero delays the parent's generators ask for.
RequestedDelays == Range(appset.generators) \ {0}

ValidationFailed == DOMAIN validateGeneratedApplications(gen.apps, gen) # {}

\* The delay of a reconcile that reached its end is the least non-zero delay
\* a generator asks for, or fallback if none asks for one.
DelayIsLeastOr(fallback) ==
    IF RequestedDelays = {} THEN last.requeueAfter = fallback
    ELSE /\ last.requeueAfter \in RequestedDelays
         /\ \A t \in RequestedDelays : last.requeueAfter <= t

\* C14 as stated: a reconcile that reaches its end returns the least non-zero
\* delay its generators ask for, 0 if none does; if a desired child failed
\* validation the delay is non-zero and never longer than 3 minutes.
C14_DelayClampedOnValidationError ==
    last.kind = "complete" =>
        IF ValidationFailed
        THEN /\ last.requeueAfter > 0
             /\ last.requeueAfter <= ReconcileRequeueOnValidationError
        ELSE DelayIsLeastOr(0)

\* C14, amended: a reconcile that reaches its end returns the least non-zero
\* delay its generators ask for, however long; if none asks for one it returns
\* 3 minutes when a desired child failed validation and 0 otherwise.
C14_DelayLeastOrValidationDefault ==
    last.kind = "complete" =>
        IF ValidationFailed
        THEN DelayIsLeastOr(ReconcileRequeueOnValidationError)
        ELSE DelayIsLeastOr(0)

\* A reconcile with a validation failure reached its end under generators of
\* which none asks for a delay, and returned 3 minutes.
C14_Witness ==
    /\ last.kind = "complete"
    /\ ValidationFailed
    /\ RequestedDelays = {}
    /\ Len(appset.generators) > 0
    /\ last.requeueAfter = ReconcileRequeueOnValidationError

(***************************************************************************)
(* SpecPolicy: the materializer under each sync policy, while the store    *)
(* rejects the writes on one child and Applications of other owners exist. *)
(***************************************************************************)
FleetTwoFinalized ==
    <<[Desired(1, "dev") EXCEPT !.finalizer = TRUE], [Desired(2, "dev") EXCEPT !.finalizer = TRUE]>>

PolicyOutputs ==
    {Generated(FleetTwo), Generated(FleetOne), Generated(FleetTwoNew),
     Generated(FleetTwoFinalized), [Generated(FleetOne) EXCEPT !.badDest = {2}]}

Policies == [update : BOOLEAN, delete : BOOLEAN]

\* The children whose writes the store rejects.
Rejections == {{}, {1}, {2}}

InitPolicy ==
    \E g \in PolicyOutputs, policy \in Policies, failing \in Rejections :
        /\ appset = Parent(Strategy("", <<>>, ""), policy)
        /\ apps = [n \in AppNames |-> Gone(n)]
        /\ gen = g
        /\ cfg = [enableProgressiveSyncs |-> FALSE, failing |-> failing, conflict |-> NoConflict]
        /\ last = Idle

\* The store starts or stops rejecting the writes on a child.
RejectionChange ==
    \E failing \in Rejections :
        /\ failing # cfg.failing
        /\ cfg' = [cfg EXCEPT !.failing = failing]
        /\ last' = Idle
        /\ UNCHANGED <<appset, apps, gen>>

NextPolicy ==
    \/ Reconcile
    \/ GeneratorChange(PolicyOutputs)
    \/ ForeignCreate
    \/ ChildFinalized
    \/ RejectionChange

SpecPolicy == InitPolicy /\ [][NextPolicy]_vars

(***************************************************************************)
(* Properties of the materializer under the sync policies.                 *)
(***************************************************************************)
\* The last step was a Reconcile that came to the create part.
AfterMaterialize == last.kind \in {"complete", "error"}

\* C15: createOrUpdateInCluster and deleteInCluster attempt every child even
\* when an earlier one fails, and the error returned is non-nil whenever a
\* child's create, update, finalizer fixup or delete failed.
C15_FirstErrorReturned ==
    AfterMaterialize =>
        /\ last.failed # {} => last.err # ""
        /\ appset.policy.update =>
              \A n \in ValidNames \ cfg.failing :
                  \/ n \in last.created \cup last.updated
                  \/ apps[n].exists /\ apps[n].owned
        /\ (last.kind = "complete" /\ appset.policy.delete) =>
              (LiveOwned \ GeneratedNames) \subseteq cfg.failing

\* C16: when the sync policy does not allow update, a reconcile modifies no
\* Application that exists in the store under a desired name, owned by the
\* parent or not: it issues creates only.
C16_CreateOnlyUpdatesNothing ==
    (AfterMaterialize /\ ~appset.policy.update) => last.updated = {}

\* C17: when the sync policy forbids delete, a Reconcile of a parent that is
\* not being deleted issues no delete and no finalizer patch on any child, and
\* every child that was live before it is live after it, children absent from
\* the desired set included.
C17_NoDeleteWhenForbidden ==
    [][(/\ appset.exists
        /\ ~appset.deleting
        /\ ~appset.policy.delete
        /\ last'.kind # "idle")
       => /\ last'.deleted = {}
          /\ last'.patched = {}
          /\ \A n \in AppNames :
                (apps[n].exists /\ apps[n].deleting = "no")
                    => (apps'[n].exists /\ apps'[n].deleting = "no")]_vars

\* A Reconcile under a policy forbidding delete completed and left in place a
\* live child of the parent that is absent from the desired set, finalizer and
\* invalid destination included.
C17_Witness ==
    /\ last.kind = "complete"
    /\ ~appset.policy.delete
    /\ \E n \in LiveOwned :
          /\ n \notin GeneratedNames
          /\ apps[n].finalizer
          /\ n \in gen.badDest

(***************************************************************************)
(* SpecConditions: the parent's conditions while generation and validation *)
(* fail and recover, the owner switches the strategy and the child's       *)
(* runtime status changes.                                                 *)
(***************************************************************************)
ConditionOutputs ==
    {Generated(FleetOne), [Generated(FleetOne) EXCEPT !.noProject = {1}], GenerationFailed}

\* Two steps of which the second selects the dev applications.
TwoSteps ==
    <<Step(<<In({"qa"})>>, NoMaxUpdate), Step(<<In({"dev"})>>, NoMaxUpdate)>>

ConditionStrategies ==
    {Strategy("", <<>>, ""), Strategy("RollingSync", OneStep, ""),
     Strategy("RollingSync", TwoSteps, ""), Strategy("RollingSync", <<>>, "")}

InitConditions ==
    \E s \in ConditionStrategies, enabled \in BOOLEAN :
        /\ appset = Parent(s, AllowAll)
        /\ apps = [n \in AppNames |-> Gone(n)]
        /\ gen = Generated(FleetOne)
        /\ cfg = [enableProgressiveSyncs |-> enabled, failing |-> {}, conflict |-> NoConflict]
        /\ last = Idle

NextConditions ==
    \/ Reconcile
    \/ AppStatusChange
    \/ GeneratorChange(ConditionOutputs)
    \/ StrategyChange(ConditionStrategies)

SpecConditions == InitConditions /\ [][NextConditions]_vars

(***************************************************************************)
(* Properties of the conditions.                                           *)
(***************************************************************************)
\* The last step was a Reconcile that wrote the parent's conditions.
AfterConditionWrite == "status.conditions" \in last.writes

\* C5: the stored condition set always satisfies: ResourcesUpToDate=True
\* implies ErrorOccurred is present with status False, and ErrorOccurred=True
\* implies ResourcesUpToDate is present with status False and reason
\* ErrorOccurred.
C5_PairedConditions ==
    /\ ConditionIs("ResourcesUpToDate", "True") => ConditionIs("ErrorOccurred", "False")
    /\ ConditionIs("ErrorOccurred", "True") =>
          /\ ConditionIs("ResourcesUpToDate", "False")
          /\ appset.status.conditions["ResourcesUpToDate"].reason = "ErrorOccurred"

\* A Reconcile wrote ErrorOccurred=True with its paired ResourcesUpToDate=False
\* over a set that held ResourcesUpToDate before, next to a rollout condition.
C5_Witness ==
    /\ AfterConditionWrite
    /\ "ResourcesUpToDate" \in last.had
    /\ ConditionIs("ErrorOccurred", "True")
    /\ ConditionIs("ResourcesUpToDate", "False")
    /\ HasCondition("RolloutProgressing")

C18_StepAndStatusValid ==
    last.kind = "complete" =>
        \A n \in DOMAIN appset.status.applicationStatus :
            /\ \/ appset.status.applicationStatus[n].step = NoStep
               \/ appset.status.applicationStatus[n].step \in 1..Len(appset.strategy.steps)
            /\ appset.status.applicationStatus[n].status \in
                   {"Waiting", "Pending", "Progressing", "Healthy"}

\* The step numbers at which the stored status list has an entry that is not
\* Healthy; -1 is the mark of an entry without step, not a step number.
UnhealthySteps ==
    {appset.status.applicationStatus[n].step :
        n \in {m \in DOMAIN appset.status.applicationStatus :
                  /\ appset.status.applicationStatus[m].step # NoStep
                  /\ appset.status.applicationStatus[m].status # "Healthy"}}

\* The last step was a completed Reconcile whose progressive sync wrote the
\* progress condition.
AfterRolloutConditionWrite ==
    /\ last.kind = "complete"
    /\ last.ps.ran
    /\ HasCondition("RolloutProgressing")

RolloutCompleteStored ==
    /\ appset.status.conditions["RolloutProgressing"].status = "False"
    /\ appset.status.conditions["RolloutProgressing"].reason = "ApplicationSetRolloutComplete"

RolloutOfStepStored(step) ==
    /\ appset.status.conditions["RolloutProgressing"].status = "True"
    /\ appset.status.conditions["RolloutProgressing"].message =
           "ApplicationSet is performing rollout of step " \o ToString(step)

\* C30: the progress condition a reconcile leaves is RolloutProgressing=True
\* naming step N exactly when N is the lowest step number that has a status
\* entry and an entry that is not Healthy, and RolloutProgressing=False with
\* reason ApplicationSetRolloutComplete exactly when every step that has
\* entries has all of them Healthy.
C30_RolloutConditionOfLowestStep ==
    AfterRolloutConditionWrite =>
        /\ RolloutCompleteStored <=> UnhealthySteps = {}
        /\ \A step \in 1..NumApps + 2 :
              RolloutOfStepStored(step)
              <=> (step \in UnhealthySteps /\ \A s \in UnhealthySteps : step <= s)

\* The step is a call of Reconcile on a parent that is not being deleted and
\* whose strategy is not RollingSync.
ReconcileOffStrategy ==
    /\ last'.kind # "idle"
    /\ appset.exists
    /\ ~appset.deleting
    /\ ~isRollingSyncStrategy(appset)

\* The call left the per-app status list empty, and emptied a list that held
\* entries with a write of the list.
StatusListCleared ==
    /\ DOMAIN appset'.status.applicationStatus = {}
    /\ DOMAIN appset.status.applicationStatus # {}
          => "status.applicationStatus" \in last'.writes

ResourcesFinalizerName == "resources-finalizer.argocd.argoproj.io"

\* Variant: every finalizer is removed from a child with an invalid
\* destination.
removeFinalizerOnInvalidDestinationAll(app, lookup, clusterList, patchFails) ==
    IF Len(app.finalizers) = 0
    THEN [app |-> app, patched |-> FALSE, err |-> ""]
    ELSE IF ~lookup.failed /\ \E cluster \in clusterList :
                                 /\ lookup.cluster.server = cluster.server
                                 /\ lookup.cluster.name = cluster.name
    THEN [app |-> app, patched |-> FALSE, err |-> ""]
    ELSE IF patchFails
    THEN [app |-> app, patched |-> FALSE, err |-> "error updating finalizers"]
    ELSE [app |-> [app EXCEPT !.finalizers = <<>>], patched |-> TRUE, err |-> ""]

\* lookup is what GetDestinationCluster returned: an error, or the cluster the
\* destination names.  patchFails: the store rejects the patch.
removeFinalizerOnInvalidDestination(app, lookup, clusterList, patchFails) ==
    IF Len(app.finalizers) = 0
    THEN [app |-> app, patched |-> FALSE, err |-> ""]
    ELSE IF ~lookup.failed /\ \E cluster \in clusterList :
                                 /\ lookup.cluster.server = cluster.server
                                 /\ lookup.cluster.name = cluster.name
    THEN [app |-> app, patched |-> FALSE, err |-> ""]
    ELSE IF Len(SelectSeq(app.finalizers, LAMBDA f : f # ResourcesFinalizerName))
            = Len(app.finalizers)
    THEN [app |-> app, patched |-> FALSE, err |-> ""]
    ELSE IF patchFails
    THEN [app |-> app, patched |-> FALSE, err |-> "error updating finalizers"]
    ELSE [app |-> [app EXCEPT !.finalizers =
                       SelectSeq(@, LAMBDA f : f # ResourcesFinalizerName)],
          patched |-> TRUE, err |-> ""]

\* Lines 823-844 for the child at hand: the fixup, then Delete unless the fixup
\* returned an error.
DeleteNotDesired ==
    /\ last.kind = "notDesired"
    /\ \E r \in {removeFinalizerOnInvalidDestination(last.app, last.lookup,
                                                      last.clusterList, last.patchFails)} :
          last' = [last EXCEPT !.kind = "fixedUp", !.after = r.app,
                               !.patched = r.patched, !.err = r.err,
                               !.deleteCalled = (r.err = "")]
    /\ UNCHANGED <<appset, apps, gen, cfg>>

MaxFinalizers == 3

FinalizerNames ==
    {ResourcesFinalizerName, "resources-finalizer.argocd.argoproj.io/background",
     "example.com/cleanup"}

FinalizerLists == UNION {[1..k -> FinalizerNames] : k \in 0..MaxFinalizers}

Clusters == [server : {"https://a", "https://b"}, name : {"a", "b"}]

Lookups == [failed : {TRUE}, cluster : {[server |-> "", name |-> ""]}]
           \cup [failed : {FALSE}, cluster : Clusters]

ClusterLists ==
    {{}, {[server |-> "https://a", name |-> "a"]},
     {[server |-> "https://a", name |-> "b"], [server |-> "https://b", name |-> "a"]}}

InitFixup ==
    \E finalizers \in FinalizerLists, lookup \in Lookups, clusterList \in ClusterLists,
       patchFails \in BOOLEAN :
        /\ appset = Parent(Strategy("", <<>>, ""), AllowAll)
        /\ apps = [n \in AppNames |-> Gone(n)]
        /\ gen = Generated(<<>>)
        /\ cfg = [enableProgressiveSyncs |-> FALSE, failing |-> {}, conflict |-> NoConflict]
        /\ last = [kind |-> "notDesired", app |-> [finalizers |-> finalizers],
                   lookup |-> lookup, clusterList |-> clusterList,
                   patchFails |-> patchFails, after |-> [finalizers |-> finalizers],
                   patched |-> FALSE, err |-> "", deleteCalled |-> FALSE]

NextFixup == DeleteNotDesired

SpecFixup == InitFixup /\ [][NextFixup]_vars

\* The destination resolves to a registered cluster: the lookup succeeded and
\* a registered cluster has the server and the name it returned.
DestinationRegistered ==
    /\ ~last.lookup.failed
    /\ last.lookup.cluster \in last.clusterList

\* a without the entries equal to x, in order.
RECURSIVE Without(_, _)
Without(a, x) ==
    IF a = <<>> THEN <<>>
    ELSE (IF Head(a) = x THEN <<>> ELSE <<Head(a)>>) \o Without(Tail(a), x)

\* C33: the fixup removes only the resources-finalizer entry, and only when the
\* destination of the child does not resolve to a registered cluster: all other
\* finalizers are kept in order, a child with a valid destination or without
\* finalizers is not patched, and a child whose patch fails is not deleted.
C33_FinalizerFixup ==
    last.kind = "fixedUp" =>
        /\ last.after.finalizers \in {last.app.finalizers,
                                       Without(last.app.finalizers, ResourcesFinalizerName)}
        /\ last.patched => last.after.finalizers # last.app.finalizers
        /\ last.after.finalizers # last.app.finalizers =>
              (last.patched /\ ~DestinationRegistered)
        /\ (~last.patchFails /\ ~DestinationRegistered) =>
              last.after.finalizers = Without(last.app.finalizers, ResourcesFinalizerName)
        /\ (DestinationRegistered \/ last.app.finalizers = <<>>) => ~last.patched
        /\ last.err # "" => ~last.deleteCalled
        /\ (last.patchFails /\ ~DestinationRegistered
              /\ ResourcesFinalizerName \in Range(last.app.finalizers)) => last.err # ""

\* The resources finalizer was removed from between two others, which stay in
\* their order, and the child was then deleted.
C33_Witness ==
    /\ last.kind = "fixedUp"
    /\ last.patched
    /\ last.deleteCalled
    /\ Len(last.app.finalizers) = 3
    /\ last.app.finalizers[2] = ResourcesFinalizerName
    /\ last.after.finalizers = <<last.app.finalizers[1], last.app.finalizers[3]>>
    /\ last.app.finalizers[1] # last.app.finalizers[3]

(***************************************************************************)
(* SpecMerge: the mutate function of create-or-update on one live child,   *)
(* with annotations and labels as maps, finalizers as a list and the       *)
(* preserved keys of the parent and of the controller.                     *)
(***************************************************************************)
NotifiedAnnotationKey == "notified.notifications.argoproj.io"

AnnotationKeyRefresh == "argocd.argoproj.io/refresh"

defaultPreservedAnnotations == {NotifiedAnnotationKey, AnnotationKeyRefresh}

PostDeleteFinalizerName == "post-delete-finalizer.argocd.argoproj.io"

\* strings.HasPrefix.
HasPrefix(s, prefix) ==
    Len(s) >= Len(prefix) /\ SubSeq(s, 1, Len(prefix)) = prefix

\* Lines 703-719: the desired map with the live value of every preserved key
\* that the live map has.
WithPreserved(desired, live, preserved) ==
    [key \in DOMAIN desired \cup (preserved \cap DOMAIN live) |->
        IF key \in preserved \cap DOMAIN live THEN live[key] ELSE desired[key]]

\* Variant: the live metadata is overwritten with the desired one.
MutateFoundDesiredOnly(found, generatedApp, preservedFields, global) ==
    [found EXCEPT !.spec = generatedApp.spec,
                  !.op = IF generatedApp.op THEN TRUE ELSE @,
                  !.annotations = generatedApp.annotations,
                  !.labels = generatedApp.labels,
                  !.finalizers = generatedApp.finalizers,
                  !.owner = "parent"]

\* Lines 674-737: the mutate function handed to CreateOrUpdate.
MutateFound(found, generatedApp, preservedFields, global) ==
    [found EXCEPT !.spec = generatedApp.spec,
                  !.op = IF generatedApp.op THEN TRUE ELSE @,
                  !.annotations =
                      WithPreserved(generatedApp.annotations, found.annotations,
                                    preservedFields.annotations \cup global.annotations
                                    \cup defaultPreservedAnnotations),
                  !.labels =
                      WithPreserved(generatedApp.labels, found.labels,
                                    preservedFields.labels \cup global.labels),
                  !.finalizers =
                      generatedApp.finalizers
                      \o SelectSeq(found.finalizers,
                                   LAMBDA f : HasPrefix(f, PostDeleteFinalizerName)),
                  !.owner = "parent"]

\* CreateOrUpdate finds the child and stores what the mutate function made of
\* it.
UpdateExistingChild ==
    /\ last.kind = "found"
    /\ last' = [last EXCEPT !.kind = "merged",
                            !.after = MutateFound(last.found, last.generatedApp,
                                                  last.preservedFields, last.global)]
    /\ UNCHANGED <<appset, apps, gen, cfg>>

\* The maps over the given keys, every value being v.
MapsOver(keys, v) == UNION {[d -> {v}] : d \in SUBSET keys}

MergeAnnotationKeys == {NotifiedAnnotationKey, "team", "cost"}

MergeLabelKeys == {"team", "env"}

LiveFinalizerLists ==
    {<<>>, <<ResourcesFinalizerName>>,
     <<"post-delete-finalizer.argocd.argoproj.io/cleanup", ResourcesFinalizerName,
       PostDeleteFinalizerName>>,
     <<"example.com/cleanup", PostDeleteFinalizerName>>}

DesiredFinalizerLists ==
    {<<>>, <<ResourcesFinalizerName>>, <<"example.com/other", ResourcesFinalizerName>>}

InitMerge ==
    \E liveAnnotations \in MapsOver(MergeAnnotationKeys, "live"),
       desiredAnnotations \in MapsOver(MergeAnnotationKeys, "desired"),
       liveLabels \in MapsOver(MergeLabelKeys, "live"),
       desiredLabels \in MapsOver(MergeLabelKeys, "desired"),
       liveFinalizers \in LiveFinalizerLists,
       desiredFinalizers \in DesiredFinalizerLists,
       parentKeys \in SUBSET {"team"}, globalKeys \in SUBSET {"cost", "env"},
       owner \in {"none", "parent"} :
        /\ appset = Parent(Strategy("", <<>>, ""), AllowAll)
        /\ apps = [n \in AppNames |-> Gone(n)]
        /\ gen = Generated(<<>>)
        /\ cfg = [enableProgressiveSyncs |-> FALSE, failing |-> {}, conflict |-> NoConflict]
        /\ last = [kind |-> "found",
                   found |-> [spec |-> 1, op |-> FALSE, annotations |-> liveAnnotations,
                              labels |-> liveLabels, finalizers |-> liveFinalizers,
                              owner |-> owner],
                   generatedApp |-> [spec |-> 2, op |-> TRUE,
                                     annotations |-> desiredAnnotations,
                                     labels |-> desiredLabels,
                                     finalizers |-> desiredFinalizers],
                   preservedFields |-> [annotations |-> parentKeys, labels |-> parentKeys],
                   global |-> [annotations |-> globalKeys, labels |-> globalKeys],
                   after |-> [spec |-> 1, op |-> FALSE, annotations |-> liveAnnotations,
                              labels |-> liveLabels, finalizers |-> liveFinalizers,
                              owner |-> owner]]

NextMerge == UpdateExistingChild

SpecMerge == InitMerge /\ [][NextMerge]_vars

\* The preserved keys of the update at hand.
PreservedAnnotationKeys ==
    last.preservedFields.annotations \cup last.global.annotations
    \cup {NotifiedAnnotationKey, AnnotationKeyRefresh}

PreservedLabelKeys == last.preservedFields.labels \cup last.global.labels

\* The map after holds the live value of every preserved key the live map has,
\* and apart from these keys it is the desired map.
MapMerged(after, live, desired, preserved) ==
    /\ \A key \in preserved \cap DOMAIN live : key \in DOMAIN after /\ after[key] = live[key]
    /\ \A key \in DOMAIN after \ (preserved \cap DOMAIN live) :
          key \in DOMAIN desired /\ after[key] = desired[key]
    /\ \A key \in DOMAIN desired : key \in DOMAIN after

\* The post-delete entries of a list, in order.
RECURSIVE PostDeleteOf(_)
PostDeleteOf(finalizers) ==
    IF finalizers = <<>> THEN <<>>
    ELSE (IF HasPrefix(Head(finalizers), "post-delete-finalizer.argocd.argoproj.io")
          THEN <<Head(finalizers)>> ELSE <<>>) \o PostDeleteOf(Tail(finalizers))

\* C34: an update of an existing child keeps, with the live value, every
\* annotation and label of the live object whose key is preserved (by the
\* parent, by the controller or by default), and keeps every live finalizer
\* that starts with the post-delete prefix; all other annotations, labels and
\* finalizers become exactly the desired ones, and the owner is the parent.
C34_UpdatePreservesFields ==
    last.kind = "merged" =>
        /\ MapMerged(last.after.annotations, last.found.annotations,
                     last.generatedApp.annotations, PreservedAnnotationKeys)
        /\ MapMerged(last.after.labels, last.found.labels,
                     last.generatedApp.labels, PreservedLabelKeys)
        /\ last.after.finalizers =
              last.generatedApp.finalizers \o PostDeleteOf(last.found.finalizers)
        /\ last.after.owner = "parent"
        /\ last.after.spec = last.generatedApp.spec

\* An update kept a preserved annotation and a preserved label with their live
\* values and two post-delete finalizers, replaced an annotation that is not
\* preserved, and dropped the live resources finalizer that is not desired.
C34_Witness ==
    /\ last.kind = "merged"
    /\ "team" \in DOMAIN last.after.annotations /\ last.after.annotations["team"] = "live"
    /\ "cost" \in DOMAIN last.after.annotations /\ last.after.annotations["cost"] = "desired"
    /\ "cost" \in DOMAIN last.found.annotations
    /\ "team" \in DOMAIN last.after.labels /\ last.after.labels["team"] = "live"
    /\ "env" \in DOMAIN last.found.labels /\ "env" \notin DOMAIN last.after.labels
    /\ Len(last.found.finalizers) = 3
    /\ last.generatedApp.finalizers = <<>>
    /\ Len(last.after.finalizers) = 2
    /\ last.found.owner = "none"

(***************************************************************************)
(* SpecRace: one call of performProgressiveSyncs while the owner of the    *)
(* parent edits the strategy.  The call works on the parent as Reconcile   *)
(* read it; the edit reaches the store before the first status write,      *)
(* whose re-read replaces the in-memory parent.                            *)
(***************************************************************************)
\* Lines 1224-1242: every index the second pass takes from appStepMap is an
\* index into the counters and the step list of the parent it works with.
StepIndicesInBounds(p, appStepMap) ==
    \A n \in DOMAIN p.status.applicationStatus :
        StepIndex(appStepMap, n) < Len(p.strategy.steps)

\* What the call leaves when the second pass indexes out of range: the Go
\* runtime panics, nothing is written after the first pass.
ProgressiveSyncsPanicked(r1, appStepMap) ==
    [c |-> r1.c, appSyncMap |-> EmptyStatuses, appStepMap |-> appStepMap,
     passed |-> r1.mem.status.applicationStatus,
     progressed |-> r1.mem.status.applicationStatus,
     err |-> "panic: runtime error: index out of range"]

\* The rest of performProgressiveSyncs after its first pass returned r1.
ProgressiveSyncsAfterStatus(r1, appDependencyList, appStepMap, appMap) ==
    IF r1.err = "" /\ progressiveSyncsRollingSyncStrategyEnabled(r1.mem)
       /\ ~StepIndicesInBounds(r1.mem, appStepMap)
    THEN ProgressiveSyncsPanicked(r1, appStepMap)
    ELSE ProgressiveSyncsSyncMap(r1, appDependencyList, appStepMap, appMap)

\* performProgressiveSyncs on the parent as read (appset), the store holding
\* the strategy the owner has written since.
ProgressiveSyncsRaced(strategies) ==
    /\ last.kind = "idle"
    /\ \E s \in strategies :
        \E r \in {ProgressiveSyncsAfterStatus(
                      updateApplicationSetApplicationStatus(
                          appset, [Begin EXCEPT !.st.strategy = s],
                          getCurrentApplications(apps), AppStepMap(appset, gen.apps)),
                      AppDependencyList(appset, gen.apps), AppStepMap(appset, gen.apps),
                      AppMapOf(getCurrentApplications(apps)))} :
            /\ appset' = r.c.st
            /\ last' = [kind |-> "raced", read |-> appset.strategy, stored |-> s,
                        appStepMap |-> r.appStepMap, passed |-> r.passed,
                        writes |-> r.c.writes, err |-> r.err]
    /\ UNCHANGED <<apps, gen, cfg>>

RaceStrategies ==
    {Strategy("RollingSync", ThreeSteps, ""), Strategy("RollingSync", TwoSteps, ""),
     Strategy("RollingSync", OneStep, ""), Strategy("RollingSync", <<>>, ""),
     Strategy("", <<>>, "")}

InitRace ==
    \E s \in RaceStrategies, fleet \in {FleetSpread, FleetSame},
       seen \in [AppNames -> Observations] :
        /\ isRollingSyncStrategy(Parent(s, AllowAll))
        /\ appset = Parent(s, AllowAll)
        /\ apps = [n \in AppNames |->
                      [Created(fleet[n]) EXCEPT !.health = seen[n].health,
                                                !.sync = seen[n].sync,
                                                !.phase = seen[n].phase]]
        /\ gen = Generated(fleet)
        /\ cfg = [enableProgressiveSyncs |-> TRUE, failing |-> {}, conflict |-> NoConflict]
        /\ last = Idle

NextRace == ProgressiveSyncsRaced(RaceStrategies)

SpecRace == InitRace /\ [][NextRace]_vars

\* C39: when the owner changes the step list between the reconciler's read of
\* the parent and the re-read of a status write, the reconcile does not index
\* the step list or the per-step counters out of their bounds.
C39_StepIndicesStayInBounds ==
    last.kind = "raced" => last.err # "panic: runtime error: index out of range"

(***************************************************************************)
(* SpecSelect: the step selection over two children with every label, for  *)
(* two steps of one or two match expressions on the label key.             *)
(***************************************************************************)
MatchExpressions ==
    [operator : {"In", "NotIn", "Exists"}, values : {{"dev"}, {"dev", "qa"}}]

SelectLabels == {NoLabel, "dev", "qa", "prod"}

SelectSteps ==
    {<<Step(first, NoMaxUpdate), Step(<<me>>, NoMaxUpdate)>> :
        first \in {<<a>> : a \in MatchExpressions}
                  \cup {<<a, b>> : a \in MatchExpressions, b \in MatchExpressions},
        me \in MatchExpressions}

InitSelect ==
    \E steps \in SelectSteps, l1 \in SelectLabels, l2 \in SelectLabels :
        /\ appset = Parent(Strategy("RollingSync", steps, ""), AllowAll)
        /\ gen = Generated(<<Desired(1, l1), Desired(2, l2)>>)
        /\ apps = [n \in AppNames |->
                      IF n \in NamesOf(gen.apps)
                      THEN Created(CHOOSE d \in Range(gen.apps) : d.name = n)
                      ELSE Gone(n)]
        /\ cfg = [enableProgressiveSyncs |-> TRUE, failing |-> {}, conflict |-> NoConflict]
        /\ last = Idle

NextSelect == StepSelection

SpecSelect == InitSelect /\ [][NextSelect]_vars

\* A match expression against the label of a child, as the selection rules put
\* it: In needs the key and a listed value, NotIn matches an absent key or a
\* value not listed, any other operator matches nothing.
ExpressionMatches(me, label) ==
    CASE me.operator = "In" -> label # NoLabel /\ label \in me.values
      [] me.operator = "NotIn" -> label = NoLabel \/ label \notin me.values
      [] OTHER -> FALSE

\* C26: a step selects a child iff all of its match expressions match, where In
\* matches iff the key exists and its value is listed, NotIn matches iff the
\* key is absent or its value is not listed, and any other operator does not
\* match whether or not the key is present.
C26_StepSelectionRules ==
    last.kind = "selected" =>
        \A i \in 1..Len(appset.strategy.steps), k \in 1..Len(gen.apps) :
            gen.apps[k].name \in Range(last.appDependencyList[i])
            <=> \A j \in 1..Len(appset.strategy.steps[i].matchExpressions) :
                    ExpressionMatches(appset.strategy.steps[i].matchExpressions[j],
                                      gen.apps[k].label)

\* The steps whose list holds the child.
StepsListing(n) ==
    {i \in 1..Len(last.appDependencyList) : n \in Range(last.appDependencyList[i])}

\* C27: a child is assigned to at most one step, the first that selects it: its
\* step number, the one step list it is in and its allow-to-sync value are
\* those of the first step selecting it, also when several steps select it.
C27_FirstMatchingStepWins ==
    last.kind = "selected" =>
        \A n \in NamesOf(gen.apps) :
            StepsListing(n) # {} =>
                LET first == CHOOSE i \in StepsListing(n) : \A j \in StepsListing(n) : i <= j
                IN /\ last.appStepMap[n] = first - 1
                   /\ last.appSyncMap[n] = SyncEnabledAt(appset, last.appDependencyList,
                                                         AppMapOf(getCurrentApplications(apps)),
                                                         first)
                   /\ StepsListing(n) = {first}

(***************************************************************************)
(* SpecProgress: one progress pass over a single step with every kind of   *)
(* maxUpdate, the children all selected by the step or all but the last,   *)
(* each entry Waiting, Pending or Healthy.                                 *)
(***************************************************************************)
BadMax == [type |-> "bad", val |-> 0]

MaxUpdates ==
    {NoMaxUpdate, BadMax, IntMax(0), IntMax(1), IntMax(2),
     PctMax(0), PctMax(34), PctMax(67), PctMax(100)}

InitProgress ==
    \E maxUpdate \in MaxUpdates, f \in {FleetSame, FleetPartly},
       statuses \in [AppNames -> {"Waiting", "Pending", "Healthy"}] :
        /\ gen = Generated(f)
        /\ apps = [n \in AppNames |-> Created(f[n])]
        /\ appset = [Parent(Strategy("RollingSync", <<Step(<<In({"dev"})>>, maxUpdate)>>, ""),
                            AllowAll)
                        EXCEPT !.status.applicationStatus =
                                  [n \in AppNames |->
                                      [status |-> statuses[n],
                                       step |-> IF f[n].label = "dev" THEN 1 ELSE NoStep,
                                       rev |-> "r0", message |-> ""]]]
        /\ cfg = [enableProgressiveSyncs |-> TRUE, failing |-> {}, conflict |-> NoConflict]
        /\ last = Idle

NextProgress == ProgressPass

SpecProgress == InitProgress /\ [][NextProgress]_vars

\* The children of the step, those of them in flight before the pass, those
\* Waiting before the pass and those the pass promoted.
StepMembers == DOMAIN last.appStepMap

InFlightBefore == {n \in StepMembers : last.before[n].status \in {"Pending", "Progressing"}}

WaitingBefore == {n \in StepMembers : last.before[n].status = "Waiting"}

PromotedByPass ==
    {n \in DOMAIN last.progressed :
        last.before[n].status = "Waiting" /\ last.progressed[n].status = "Pending"}

\* The resolved maxUpdate as the rules state it, -1 standing for no cap.
StatedMaxUpdate(maxUpdate, total) ==
    CASE maxUpdate.type = "int" -> maxUpdate.val
      [] maxUpdate.type = "pct" ->
            IF maxUpdate.val # 0 /\ (maxUpdate.val * total) \div 100 = 0 THEN 1
            ELSE (maxUpdate.val * total) \div 100
      [] OTHER -> -1

Least(a, b) == IF a <= b THEN a ELSE b

\* C28: the resolved maxUpdate of a step is the integer itself, or the
\* percentage of the number of apps in the step rounded down (a non-zero
\* percentage yielding 0 resolves to 1), and an invalid value is no cap at all:
\* the pass promotes the Waiting apps of the step up to that cap, the apps in
\* flight counted, and all of them when there is no cap.
C28_ResolvedMaxUpdate ==
    last.kind = "progressPass" =>
        LET cap == StatedMaxUpdate(appset.strategy.steps[1].maxUpdate, Cardinality(StepMembers))
            room == IF cap - Cardinality(InFlightBefore) > 0
                    THEN cap - Cardinality(InFlightBefore) ELSE 0
        IN IF cap = -1
           THEN PromotedByPass = WaitingBefore
           ELSE Cardinality(PromotedByPass) = Least(Cardinality(WaitingBefore), room)

(***************************************************************************)
(* SpecStatusPass: one status pass over one child, from every recorded     *)
(* entry (or none) and every reported status of the child.                 *)
(***************************************************************************)
StatusEntries ==
    [status : {"Waiting", "Pending", "Progressing", "Healthy"}, step : {1},
     rev : {"r0", "r1"}, message : {""}]

ReportedStatuses ==
    [health : {"Healthy", "Progressing"}, sync : {"Synced", "OutOfSync"},
     phase : {"", "Running", "Succeeded"}, rev : {"r0", "r1"}]

InitStatusPass ==
    \E steps \in {OneStep, <<>>}, o \in ReportedStatuses,
       entries \in {EmptyStatuses} \cup {[n \in {1} |-> e] : e \in StatusEntries} :
        /\ appset = [Parent(Strategy("RollingSync", steps, ""), AllowAll)
                        EXCEPT !.status.applicationStatus = entries]
        /\ apps = [n \in AppNames |->
                      IF n = 1
                      THEN [Created(Desired(1, "dev")) EXCEPT !.health = o.health, !.sync = o.sync,
                                                              !.phase = o.phase, !.rev = o.rev]
                      ELSE Gone(n)]
        /\ gen = Generated(FleetOne)
        /\ cfg = [enableProgressiveSyncs |-> TRUE, failing |-> {}, conflict |-> NoConflict]
        /\ last = Idle

NextStatusPass == StatusPass

SpecStatusPass == InitStatusPass /\ [][NextStatusPass]_vars

\* C24: in one status pass only the first applicable rule fires for an app: an
\* entry that is Pending when the pass starts is not Healthy when it ends, and
\* an entry the pass resets to Waiting because the revisions changed is not
\* moved to Healthy by the same pass.
C24_OneTransitionPerPass ==
    last.kind = "statusPass" =>
        \A n \in DOMAIN last.before \cap DOMAIN last.passed :
            /\ last.before[n].status = "Pending" => last.passed[n].status # "Healthy"
            /\ last.before[n].rev # apps[n].rev => last.passed[n].status # "Healthy"

\* C25: with progressive sync active, after a status pass no app has the
\* recorded status Healthy while its sync status is OutOfSync, and an entry
\* that the pass made Healthy belongs to an app that is runtime-healthy (health
\* Healthy, sync not OutOfSync, operation phase Succeeded or empty).
C25_HealthyOnlyWhenRuntimeHealthy ==
    (last.kind = "statusPass" /\ progressiveSyncsRollingSyncStrategyEnabled(appset)) =>
        \A n \in DOMAIN last.passed :
            last.passed[n].status = "Healthy" =>
                /\ apps[n].sync # "OutOfSync"
                /\ (n \notin DOMAIN last.before \/ last.before[n].status # "Healthy") =>
                      /\ apps[n].health = "Healthy"
                      /\ apps[n].sync # "OutOfSync"
                      /\ apps[n].phase \in {"Succeeded", ""}

\* A pass found a Waiting entry of a runtime-healthy app and made it Healthy.
C25_Witness ==
    /\ last.kind = "statusPass"
    /\ progressiveSyncsRollingSyncStrategyEnabled(appset)
    /\ 1 \in DOMAIN last.before
    /\ last.before[1].status = "Waiting"
    /\ last.passed[1].status = "Healthy"
    /\ apps[1].health = "Healthy"
    /\ apps[1].sync = "Synced"

(***************************************************************************)
(* SpecConflict: the writes of the reconciler while another writer gets in *)
(* the way of one kind of write, from creation to the deletion by the      *)
(* owner.                                                                  *)
(***************************************************************************)
ConflictKinds ==
    {"status.resources", "status.applicationStatus", "status.conditions",
     "parent.update", "child.update"}

\* One conflict, one less than the retries absorb, and as many as they give up at.
ConflictChoices ==
    {NoConflict} \cup [on : ConflictKinds, times : {1, RetrySteps - 1, RetrySteps}]

ConflictOutputs == {Generated(FleetTwo), Generated(FleetOne), GenerationFailed}

InitConflict ==
    \E policy \in {AllowAll, [update |-> TRUE, delete |-> FALSE]}, conflict \in ConflictChoices :
        /\ appset = [Parent(Strategy("RollingSync", OneStep, ""), policy)
                        EXCEPT !.generators = <<600>>]
        /\ apps = [n \in AppNames |-> Gone(n)]
        /\ gen = Generated(FleetTwo)
        /\ cfg = [enableProgressiveSyncs |-> TRUE, failing |-> {}, conflict |-> conflict]
        /\ last = Idle

NextConflict ==
    \/ Reconcile
    \/ GeneratorChange(ConflictOutputs)
    \/ ConflictChange(ConflictChoices)
    \/ RefreshRequest
    \/ DeleteRequest
    \/ GarbageCollect

SpecConflict == InitConflict /\ [][NextConflict]_vars

\* C22: every mutating store operation of the reconciler (the status updates,
\* the parent update that removes the resources finalizer, the parent update
\* that removes the refresh annotation, the child updates that remove owner
\* references) answers a conflict by reading the object again and retrying,
\* and gives up with an error only after 5 attempts.
C22_ConflictRetriedFiveTimes ==
    \A x \in last.rejected : x[2] = RetrySteps

\* C23: a failure of a condition write is swallowed: a reconcile in which only
\* condition writes failed returns no error, and its requeue delay is the one
\* it returns when the write succeeds (the validation delay after a generation
\* error, otherwise the least delay the generators ask for).
C23_ConditionWriteFailureSwallowed ==
    (last.rejected # {} /\ \A x \in last.rejected : x[1] = "status.conditions") =>
        /\ last.err = ""
        /\ last.kind \in {"generation", "complete"}
        /\ last.kind = "complete" => DelayIsLeastOr(0)
        /\ last.kind = "generation" => last.requeueAfter = ReconcileRequeueOnValidationError

\* The call of Reconcile returned before the refresh annotation is looked at:
\* generation failed, a status write failed, or a create, update or delete of a
\* child returned an error.
ReturnedEarly(kind) == kind \in {"generation", "statusError", "error"}

\* C32: a reconcile of a parent that carries the refresh annotation removes the
\* annotation from the stored parent when it gets through generation,
\* validation and the create, update and delete of the children without a
\* returned error, and leaves the annotation in place when it returns early.
C32_RefreshAnnotationRemoved ==
    [][(last'.kind # "idle" /\ appset.exists /\ ~appset.deleting /\ appset.refresh) =>
          (appset'.refresh <=> ReturnedEarly(last'.kind))]_vars

(***************************************************************************)
(* SpecTeardown: a parent whose children exist is deleted by its owner.    *)
(***************************************************************************)
\* The spread fleet from a template that sets the resources finalizer.
FleetSpreadFinalized == [k \in 1..NumApps |-> [FleetSpread[k] EXCEPT !.finalizer = TRUE]]

TeardownFleets == {FleetSpread, FleetSpreadFinalized, FleetPartly}

TeardownPolicies == {AllowAll, [update |-> TRUE, delete |-> FALSE]}

InitTeardown ==
    \E f \in TeardownFleets, policy \in TeardownPolicies, order \in {"Reverse", "AllAtOnce"} :
        /\ appset = Parent(Strategy("RollingSync", ThreeSteps, order), policy)
        /\ apps = [n \in AppNames |-> Gone(n)]
        /\ gen = Generated(f)
        /\ cfg = [enableProgressiveSyncs |-> TRUE, failing |-> {}, conflict |-> NoConflict]
        /\ last = Idle

NextTeardown ==
    \/ Reconcile
    \/ DeleteRequest
    \/ ChildFinalized
    \/ TimePasses
    \/ GarbageCollect

SpecTeardown == InitTeardown /\ [][NextTeardown]_vars

(***************************************************************************)
(* Properties of the reverse deletion.                                     *)
(***************************************************************************)
\* The last step was a Reconcile of a parent under deletion with deletionOrder
\* Reverse.
AfterReverseTeardown ==
    last.kind = "teardown" /\ isProgressiveSyncDeletionOrderReversed(appset)

\* That Reconcile removed the parent's resources finalizer.
FinalizerRemovedNow == "parent.update" \in last.writes

\* 0-based step of a child the reverse deletion found in a step.
StepAtTeardown(n) == last.ps.appStepMap[n]

InStore(n) == apps[n].exists

Live(n) == apps[n].exists /\ apps[n].deleting = "no"

\* C7: a child assigned to step i receives a delete only when every child
\* assigned to a step greater than i has been removed from the store.
C7_DeleteAfterLaterStepsRemoved ==
    AfterReverseTeardown =>
        \A n \in last.deleted : \A m \in DOMAIN last.ps.appStepMap :
            InStore(m) => StepAtTeardown(m) <= StepAtTeardown(n)

\* The child of the first step received its delete after the children of the
\* two later steps had been removed from the store.
C7_Witness ==
    /\ AfterReverseTeardown
    /\ gen.apps \in {FleetSpread, FleetSpreadFinalized}
    /\ last.deleted = {1}
    /\ StepAtTeardown(1) = 0
    /\ ~InStore(2)
    /\ ~InStore(3)

\* C8 as stated: no child of step i+k (k > 0) is deleted while a child of step i
\* is still live.
C8_NoLaterStepDeletedWhileEarlierLive ==
    AfterReverseTeardown =>
        \A n \in last.deleted : \A m \in DOMAIN last.ps.appStepMap :
            Live(m) => ~(StepAtTeardown(m) < StepAtTeardown(n))

\* C8, amended: no child of step i is deleted while a child of step i+k (k > 0)
\* is still live.
C8_NoEarlierStepDeletedWhileLaterLive ==
    AfterReverseTeardown =>
        \A n \in last.deleted : \A m \in DOMAIN last.ps.appStepMap :
            Live(m) => ~(StepAtTeardown(m) > StepAtTeardown(n))

\* The child of the last step was deleted while the children of the two earlier
\* steps were live.
C8_Witness ==
    /\ AfterReverseTeardown
    /\ last.deleted = {3}
    /\ StepAtTeardown(3) = 2
    /\ Live(1) /\ StepAtTeardown(1) = 0
    /\ Live(2) /\ StepAtTeardown(2) = 1

\* C9 as stated: the resources finalizer is removed only in a reconcile in
\* which no child owned by the parent is still in the store, children matched
\* by no step included.
C9_FinalizerOnlyWhenNoChild ==
    (AfterReverseTeardown /\ FinalizerRemovedNow) =>
        \A n \in AppNames : ~(InStore(n) /\ apps[n].owned)

\* C9, amended: the resources finalizer is removed only in a reconcile in which
\* no child owned by the parent and matched by a step is still in the store;
\* owned children matched by no step may still be there.
C9_FinalizerOnlyWhenStepsDrained ==
    (AfterReverseTeardown /\ FinalizerRemovedNow) =>
        \A n \in AppNames :
            (InStore(n) /\ apps[n].owned) =>
                \A i \in 1..Len(appset.strategy.steps) :
                    ~StepSelects(appset.strategy.steps[i], apps[n].label)

\* The finalizer was removed after the children of the steps had been deleted
\* one by one, while an owned child matched by no step is in the store.
C9_Witness ==
    /\ AfterReverseTeardown
    /\ FinalizerRemovedNow
    /\ gen.apps = FleetPartly
    /\ ~InStore(1)
    /\ ~InStore(2)
    /\ InStore(3) /\ apps[3].owned

\* C10: in reverse deletion a reconcile initiates at most one child deletion,
\* and one that does returns RequeueAfter = 10 s with a nil error and leaves the
\* parent's finalizer in place.
C10_OneDeletionPerReconcile ==
    AfterReverseTeardown =>
        /\ Cardinality(last.deleted) <= 1
        /\ last.deleted # {} =>
              /\ last.requeueAfter = ReverseRequeueTime
              /\ last.err = ""
              /\ ~FinalizerRemovedNow
              /\ appset.exists
              /\ appset.finalizer

\* A reconcile initiated the deletion of one child, which stays marked for
\* deletion, while other children of the parent are in the store.
C10_Witness ==
    /\ AfterReverseTeardown
    /\ \E n \in AppNames :
          /\ last.deleted = {n}
          /\ apps[n].deleting = "marked"
          /\ \E m \in AppNames \ {n} : InStore(m) /\ apps[m].owned
    /\ last.requeueAfter = ReverseRequeueTime

\* The step is a teardown reconcile in Reverse order in which every child that
\* is next in order was already marked for deletion and is still in the store.
NextChildAlreadyMarked ==
    /\ last'.kind = "teardown"
    /\ appset.exists
    /\ appset.deleting
    /\ isProgressiveSyncDeletionOrderReversed(appset)
    /\ ReverseFront(last'.ps.appStepMap) # {}
    /\ \A n \in ReverseFront(last'.ps.appStepMap) :
          apps[n].exists /\ apps[n].deleting # "no"

\* C35: in Reverse deletion mode, when the next child in order is already
\* marked for deletion but not yet removed, the reconcile issues no delete, on
\* that child or on any other; if the child has been marked for more than two
\* minutes the reconcile returns an error, asks for no requeue and leaves the
\* finalizer of the parent in place.
C35_WaitsForMarkedChild ==
    [][NextChildAlreadyMarked =>
          /\ last'.deleted = {}
          /\ (\A n \in ReverseFront(last'.ps.appStepMap) : apps[n].deleting = "stale") =>
                /\ last'.err # ""
                /\ last'.requeueAfter = 0
                /\ appset'.exists
                /\ appset'.finalizer]_vars

(***************************************************************************)
(* Properties of the teardown under a policy that forbids delete.          *)
(***************************************************************************)
\* C11: when the parent has a deletion timestamp and the policy forbids delete,
\* the reconciler removes the owner references of the parent's children and no
\* child is deleted by the teardown, whatever the deletion order: no teardown
\* reconcile issues a delete, no child is marked for deletion, and the children
\* the parent's status lists are in the store when the parent is gone.
C11_ForbiddenDeleteKeepsChildren ==
    ~appset.policy.delete =>
        /\ last.kind = "teardown" => last.deleted = {}
        /\ \A n \in AppNames : InStore(n) => apps[n].deleting = "no"
        /\ ~appset.exists => \A n \in DOMAIN appset.status.resources : InStore(n)

(***************************************************************************)
(* Properties of the progressive sync.                                     *)
(***************************************************************************)
\* The last step was a Reconcile that ran the progressive sync with steps.
AfterProgressiveSync ==
    /\ last.kind = "complete"
    /\ last.ps.ran
    /\ progressiveSyncsRollingSyncStrategyEnabled(appset)

EntriesOfStep(i) ==
    {n \in DOMAIN appset.status.applicationStatus : getAppStep(n, last.ps.appStepMap) = i}

InFlightOfStep(i) ==
    {n \in EntriesOfStep(i) :
        appset.status.applicationStatus[n].status \in {"Pending", "Progressing"}}

CappedSteps ==
    {i \in 1..Len(appset.strategy.steps) : appset.strategy.steps[i].maxUpdate.type # "nil"}

CapOfStep(i) ==
    ResolveMaxUpdate(appset.strategy.steps[i].maxUpdate,
                     TotalCount(appset, last.ps.appStepMap, i - 1))

\* The entries the second pass of the last Reconcile moved Waiting -> Pending.
PromotedNow ==
    {n \in DOMAIN appset.status.applicationStatus \cap DOMAIN last.ps.passed :
        /\ last.ps.passed[n].status = "Waiting"
        /\ appset.status.applicationStatus[n].status = "Pending"}

\* The in-flight count the pass had reached for the step of n when it came to n.
CountBefore(n) ==
    Cardinality({m \in DOMAIN last.ps.passed :
                    /\ StepIndex(last.ps.appStepMap, m) = StepIndex(last.ps.appStepMap, n)
                    /\ \/ last.ps.passed[m].status \in {"Pending", "Progressing"}
                       \/ m \in PromotedNow /\ m < n})

PromotionRule ==
    \A n \in PromotedNow :
        /\ SyncAllowed(last.ps.appSyncMap, n)
        /\ getAppStep(n, last.ps.appStepMap) \in CappedSteps =>
               CountBefore(n) < CapOfStep(getAppStep(n, last.ps.appStepMap))

\* C1 as stated: after every reconcile that ran the progressive sync, every
\* step that sets maxUpdate has at most that many entries Pending or
\* Progressing, and an entry is promoted only if its step is sync-enabled, it
\* was Waiting and the step's in-flight count was below the cap.
C1_CapAfterEveryReconcile ==
    AfterProgressiveSync =>
        /\ \A i \in CappedSteps : Cardinality(InFlightOfStep(i)) <= CapOfStep(i)
        /\ PromotionRule

\* C1, amended: after every reconcile that promotes an entry of a step that
\* sets maxUpdate, the step has at most that many entries Pending or
\* Progressing; an entry is promoted only if its step is sync-enabled, it was
\* Waiting and the step's in-flight count was below the cap.
C1_CapAfterPromotion ==
    AfterProgressiveSync =>
        /\ \A i \in CappedSteps :
              PromotedNow \cap EntriesOfStep(i) # {} =>
                  Cardinality(InFlightOfStep(i)) <= CapOfStep(i)
        /\ PromotionRule

\* A reconcile promoted an entry of a capped step up to the cap and held back
\* another Waiting entry of the same sync-enabled step.
C1_Witness ==
    /\ AfterProgressiveSync
    /\ \E i \in CappedSteps :
          /\ PromotedNow \cap EntriesOfStep(i) # {}
          /\ Cardinality(InFlightOfStep(i)) = CapOfStep(i)
          /\ \E n \in EntriesOfStep(i) :
                /\ appset.status.applicationStatus[n].status = "Waiting"
                /\ SyncAllowed(last.ps.appSyncMap, n)

\* A step is incomplete when it lists an application that is not both
\* runtime-healthy and recorded Healthy.
StepIncomplete(i) ==
    \E n \in Range(AppDependencyList(appset, gen.apps)[i]) :
        ~ /\ n \in last.ps.healthyNames
          /\ n \in DOMAIN last.ps.passed
          /\ last.ps.passed[n].status = "Healthy"

FirstIncompleteStep ==
    LET incomplete == {i \in 1..Len(appset.strategy.steps) : StepIncomplete(i)}
    IN IF incomplete = {} THEN Len(appset.strategy.steps) + 1
       ELSE CHOOSE i \in incomplete : \A j \in incomplete : i <= j

\* C2: in the allow map of buildAppSyncMap the applications of the steps up to
\* and including the first incomplete step are sync-enabled and those of every
\* later step are sync-disabled, so no application of a later step is promoted.
C2_SyncMapContract ==
    AfterProgressiveSync =>
        /\ \A i \in 1..Len(appset.strategy.steps) :
              \A n \in Range(AppDependencyList(appset, gen.apps)[i]) :
                  SyncAllowed(last.ps.appSyncMap, n) <=> i <= FirstIncompleteStep
        /\ \A n \in PromotedNow :
              getAppStep(n, last.ps.appStepMap) <= FirstIncompleteStep

(***************************************************************************)
(* SpecPersist: one call of a status-write routine whose re-read of the    *)
(* parent, or whose Status().Update, may fail.  The routine, the outcome   *)
(* of the two remote calls and the status to write are the inputs.         *)
(***************************************************************************)
\* The closure every status-write routine hands to retry.RetryOnConflict:
\* re-read the parent, assign the new status, Status().Update.
\* client.IgnoreNotFound is nil for a not-found error, the error otherwise.
StatusUpdateAttempt(getErr, updateErr) ==
    LET IgnoreNotFound(err) == IF err = "NotFound" THEN "" ELSE err
    IN
    IF getErr # ""
    THEN IF IgnoreNotFound(getErr) # ""
         THEN [err |-> "", wrote |-> FALSE]
         ELSE [err |-> getErr, wrote |-> FALSE]
    ELSE IF updateErr # ""
    THEN [err |-> updateErr, wrote |-> FALSE]
    ELSE [err |-> "", wrote |-> TRUE]

\* What the routine returns for the error of its retry loop: the condition
\* and the migration routine drop a not-found error, the other two wrap any.
StatusWriteError(routine, err) ==
    IF err = "" \/ (routine \in {"conditions", "migrate"} /\ err = "NotFound")
    THEN ""
    ELSE IF routine \in {"conditions", "migrate"}
    THEN "unable to set application set condition"
    ELSE "unable to set application set status"

\* The parent with the status the routine is about to write.
StatusToWrite(routine, p, applications, value) ==
    IF routine = "conditions"
    THEN [p EXCEPT !.status.conditions =
             SetConditions(@, NewConditionsFor(value, TRUE), EvaluatedTypesFor(p, value))]
    ELSE IF routine = "applicationStatus"
    THEN [p EXCEPT !.status.applicationStatus = value]
    ELSE IF routine = "resources"
    THEN [p EXCEPT !.status.resources = ResourceStatuses(applications)]
    ELSE p

\* Whether the routine enters its retry loop: needToUpdateConditions,
\* needToUpdateStatus, the update flag of migrateStatus (value: some entry
\* has no target revisions); updateResourcesStatus always writes.
StatusWriteNeeded(routine, p, applications, value) ==
    IF routine = "conditions"
    THEN StatusToWrite(routine, p, applications, value) # p
    ELSE IF routine = "applicationStatus"
    THEN NeedToUpdateStatus(p, value)
    ELSE IF routine = "resources"
    THEN TRUE
    ELSE value

StatusWrite ==
    /\ last.kind = "toWrite"
    /\ \E needed \in {StatusWriteNeeded(last.routine, appset,
                                          getCurrentApplications(apps), last.value)},
          a \in {StatusUpdateAttempt(last.getErr, last.updateErr)} :
          /\ appset' = IF needed /\ a.wrote
                       THEN StatusToWrite(last.routine, appset,
                                          getCurrentApplications(apps), last.value)
                       ELSE appset
          /\ last' = [kind |-> "written", routine |-> last.routine,
                      getErr |-> last.getErr, updateErr |-> last.updateErr,
                      needed |-> needed, wrote |-> needed /\ a.wrote,
                      err |-> IF needed THEN StatusWriteError(last.routine, a.err) ELSE ""]
    /\ UNCHANGED <<apps, gen, cfg>>

StatusWriteInputs ==
    [routine : {"applicationStatus"},
     value : {EmptyStatuses} \cup {[n \in {1} |-> e] : e \in StatusEntries}]
    \cup [routine : {"conditions"},
          value : {Cond("ErrorOccurred", "True", "ApplicationValidationError", "invalid"),
                   Cond("ResourcesUpToDate", "True", "ApplicationSetUpToDate", "ok")}]
    \cup [routine : {"resources"}, value : {TRUE}]
    \cup [routine : {"migrate"}, value : BOOLEAN]

InitPersist ==
    \E i \in StatusWriteInputs, getErr \in {"", "NotFound", "Timeout"},
       updateErr \in {"", "Forbidden"},
       entries \in {EmptyStatuses} \cup {[n \in {1} |-> e] : e \in StatusEntries} :
        /\ appset = [Parent(Strategy("RollingSync", OneStep, ""), AllowAll)
                        EXCEPT !.status.applicationStatus = entries]
        /\ apps = [n \in AppNames |-> IF n = 1 THEN Created(Desired(1, "dev")) ELSE Gone(n)]
        /\ gen = Generated(FleetOne)
        /\ cfg = [enableProgressiveSyncs |-> TRUE, failing |-> {}, conflict |-> NoConflict]
        /\ last = [kind |-> "toWrite", routine |-> i.routine, value |-> i.value,
                   getErr |-> getErr, updateErr |-> updateErr]

NextPersist == StatusWrite

SpecPersist == InitPersist /\ [][NextPersist]_vars

\* C40: a status-write routine that returns no error has persisted the new
\* status or had nothing to write; a re-read that fails with an error other
\* than not-found makes the routine return an error.
C40_SuccessMeansPersisted ==
    last.kind = "written" =>
        /\ last.err = "" => (last.wrote \/ ~last.needed)
        /\ (last.needed /\ last.getErr \notin {"", "NotFound"}) => last.err # ""

====
